---- MODULE Spec2Model ----
(***************************************************************************)
(* A model of oakley-finance: the persisted alert store and its check      *)
(* cycle (alerts.py), the morning-briefing section orchestrator            *)
(* (daily_briefing.py), the Telegram truncation (common/formatting.py),    *)
(* the cached ticker fetch (market_data.py) and the rate limiter.          *)
(*                                                                         *)
(* The specifications share the module's variables:                        *)
(*   Spec         the alert store under add / remove / check_alerts        *)
(*   SpecFail     Spec with news lookups that may raise                    *)
(*   SpecNews     news alerts whose keywords are phrases                   *)
(*   SpecIds      add / remove with the history of the ids assigned        *)
(*   SpecRace     an add or remove and a check_alerts running at once      *)
(*   SpecBatch    check_alerts alone, one alert of its loop at a time       *)
(*   SpecBrief    build_briefing running its section builders              *)
(*   SpecAlertsBrief  build_briefing with its Alerts section on the store  *)
(*   SpecTrunc    truncate_for_telegram applied to bounded texts           *)
(*   SpecFetch    _fetch_ticker over the freshness cache                   *)
(*   SpecProducers  _fetch_ticker or scan_news, each over its cache        *)
(*   SpecLimiter  threads calling the rate limiter's acquire               *)
(***************************************************************************)
EXTENDS Integers, Sequences, FiniteSets, TLC

VARIABLES
    store,      \* alerts.json: the persisted list of alert dicts
    market,     \* what market_data.get_stock returns per symbol, <<>> = None
    news,       \* what news_scanner.scan_news(limit=50) returns
    lastOp,     \* the operation that ran last
    msg,        \* the message the last add_* / remove_alert returned
    returned,   \* the list the last check_alerts returned
    fetched,    \* ids of the alerts the last check_alerts fetched data for
    callBit,    \* flips with every operation on the alert store
    wrote,      \* the last operation called _save_alerts
    highest,    \* the greatest id an add has assigned so far, 0 for none
    cache,      \* the market_data cache entry of one key: <<>> or <<entry>>
    now,        \* the clock, in seconds
    ticks,      \* how often the clock has advanced
    upstream,   \* what yfinance yields for the ticker at present
    fpc,        \* where _fetch_ticker stands
    lastGet,    \* the _cache.get call of the last step: <<>> or <<[ttl, result]>>
    fres,       \* <<>> or <<how the last _fetch_ticker call ended and its result>>
    call_timestamps,  \* the rate limiter's recorded call times
    clock,      \* the rate limiter's clock, in seconds
    lpc,        \* per caller of acquire: "idle" or "acquire"
    rpc,        \* two threads in alert operations: "idle", "loaded" or "done" each
    rlocal,     \* the list each of them got from _load_alerts
    rop,        \* what the first thread runs: add_price_alert or remove_alert
    rout,       \* what each of them did: the alert added or removed, the list returned
    cpc,        \* check_alerts step by step: "idle" or "loop"
    cidx,       \* the position of the alert the loop examines next
    clocal,     \* its local `alerts` list
    ctriggered, \* its local `triggered` list
    cwrites,    \* how often it has called _save_alerts
    cend,       \* how its last call ended: "none", "returned" or "raised"
    cret,       \* the list its last call returned
    ftrace,     \* what the _fetch_ticker call of the last step has called so far
    ncache,     \* the news cache entry of the key news_all: <<>> or <<entry>>
    feedsNow,   \* what feedparser.parse yields for each feed at present
    spc,        \* where scan_news stands: "idle" or "feeds"
    sidx,       \* the feed its loop parses next
    all_items,  \* its local `all_items` list
    slimit,     \* its `limit` argument
    strace,     \* what the scan_news call has called so far
    sres,       \* <<>> or <<how the last scan_news call ended and its result>>
    bpc,        \* where build_briefing / _run_section stands
    sec,        \* index of the section being run
    running,    \* sections whose builder is executing in a worker thread
    fut,        \* the future of the current section: <<>> or <<its outcome>>
    waited,     \* what future.result(timeout) yielded: <<>> or <<outcome>>
    elapsed,    \* seconds since the current builder was submitted
    result,     \* what _run_section returned for the current section
    sections,   \* build_briefing's `sections` list
    outcomes,   \* per finished section, what future.result yielded
    body,       \* what build_briefing returned
    input,      \* the argument of truncate_for_telegram
    out         \* <<>> or <<what truncate_for_telegram returned>>

alertVars == <<store, market, news, lastOp, msg, returned, fetched, callBit, wrote>>

briefVars == <<bpc, sec, running, fut, waited, elapsed, result, sections, outcomes, body>>

truncVars == <<input, out>>

idVars == <<highest>>

fetchVars == <<cache, now, ticks, upstream, fpc, lastGet, fres, ftrace>>

scanVars == <<ncache, feedsNow, spc, sidx, all_items, slimit, strace, sres>>

limiterVars == <<call_timestamps, clock, lpc>>

raceVars == <<rpc, rlocal, rop, rout>>

batchVars == <<cpc, cidx, clocal, ctriggered, cwrites, cend, cret>>

vars ==
    <<alertVars, idVars, briefVars, truncVars, fetchVars, limiterVars, raceVars,
      batchVars, scanVars>>

\* a step of one part of the program leaves the other parts alone
AlertsOnly ==
    UNCHANGED <<idVars, briefVars, truncVars, fetchVars, limiterVars, raceVars,
                batchVars, scanVars>>

BriefingOnly ==
    UNCHANGED <<alertVars, idVars, truncVars, fetchVars, limiterVars, raceVars,
                batchVars, scanVars>>

TruncateOnly ==
    UNCHANGED <<alertVars, idVars, briefVars, fetchVars, limiterVars, raceVars,
                batchVars, scanVars>>

FetchOnly ==
    UNCHANGED <<alertVars, idVars, briefVars, truncVars, limiterVars, raceVars,
                batchVars, scanVars>>

LimiterOnly ==
    UNCHANGED <<alertVars, idVars, briefVars, truncVars, fetchVars, raceVars,
                batchVars, scanVars>>

(***************************************************************************)
(* Bounds                                                                  *)
(***************************************************************************)
MaxAlerts == 2
MaxId == 3

(***************************************************************************)
(* Small helpers                                                           *)
(***************************************************************************)
Range(s) == {s[i] : i \in 1..Len(s)}

Max(S) == CHOOSE x \in S : \A y \in S : y <= x

Lowest(S) == CHOOSE x \in S : \A y \in S : x <= y

Abs(x) == IF x < 0 THEN -x ELSE x

None == <<>>

(***************************************************************************)
(* Inputs.  Prices are in cents and percentages in hundredths of a percent,*)
(* so 10000 is 100.00 and -500 is -5.00%.                                  *)
(***************************************************************************)
Symbols == {"AAA", "aaa"}

StoredSymbols == {"AAA"}

Conditions == {"above", "below", "sideways"}

Targets == {10000}

Thresholds == {500}

Quotes ==
    { [price |-> 9999,  change_pct |-> -500],
      [price |-> 10000, change_pct |-> 499],
      [price |-> 10001, change_pct |-> -499] }

\* str.upper() on the characters and symbols the model uses
upper_char(c) ==
    CASE c = "r" -> "R"
      [] c = "b" -> "B"
      [] OTHER -> c

upper(s) == [i \in 1..Len(s) |-> upper_char(s[i])]

symbol_upper(sym) == IF sym = "aaa" THEN "AAA" ELSE sym

KeywordLists == { << <<"r", "b">>, <<"R", "R">> >> }

\* keyword lists of one phrase, as `--keywords "b r"` passes them
PhraseLists == { << <<"b", " ", "r">> >> }

item_rb == [title |-> <<"R", "b">>, summary |-> <<>>]
item_b_r == [title |-> <<"b">>, summary |-> <<"r">>]
item_x == [title |-> <<"x">>, summary |-> <<"r", "B", "x">>]
item_rr == [title |-> <<"r", "r">>, summary |-> <<"x">>]
item_brb == [title |-> <<"b", "R", "b">>, summary |-> <<"r">>]

NewsFeeds ==
    { <<>>,
      <<item_b_r>>,
      <<item_b_r, item_rb, item_x, item_rr, item_brb>> }

(***************************************************************************)
(* Text.  A Python str is the sequence of its characters.                  *)
(***************************************************************************)
Whitespace == {" ", "\n", "\t"}

\* bool(s.strip()) is False: nothing but whitespace
is_blank(s) == \A i \in 1..Len(s) : s[i] \in Whitespace

RECURSIVE join(_, _)
\* sep.join(parts)
join(sep, parts) ==
    IF parts = <<>> THEN <<>>
    ELSE IF Len(parts) = 1 THEN parts[1]
    ELSE parts[1] \o sep \o join(sep, Tail(parts))

repeat(c, n) == [i \in 1..n |-> c]

TruncationMarker ==
    <<"\n", "\n", ".", ".", ".", " ", "(", "t", "r", "u", "n", "c", "a",
    "t", "e", "d", ")">>

TELEGRAM_MAX_LENGTH == 4096

\* s.rfind("\n"): the 0-based index of the last line break, or -1
rfind_newline(s) ==
    LET at == {i \in 1..Len(s) : s[i] = "\n"}
    IN IF at = {} THEN -1 ELSE Max(at) - 1

\* s[:n] for n >= 0
prefix(s, n) == IF n >= Len(s) THEN s ELSE SubSeq(s, 1, n)

truncate_at_limit(text, max_length) ==
    IF Len(text) <= max_length THEN text
    ELSE LET truncated == prefix(text, max_length)
             last_newline == rfind_newline(truncated)
             kept == IF last_newline > max_length \div 2
                     THEN prefix(truncated, last_newline)
                     ELSE truncated
         IN kept \o TruncationMarker

truncate_hard(text, max_length) ==
    IF Len(text) <= max_length THEN text
    ELSE prefix(text, max_length - 30) \o TruncationMarker

\* common/formatting.py
truncate_for_telegram(text, max_length) ==
    IF Len(text) <= max_length THEN text
    ELSE LET truncated == prefix(text, max_length - 30)
             last_newline == rfind_newline(truncated)
             kept == IF last_newline > max_length \div 2
                     THEN prefix(truncated, last_newline)
                     ELSE truncated
         IN kept \o TruncationMarker

(***************************************************************************)
(* daily_briefing.py                                                       *)
(***************************************************************************)
SECTION_TIMEOUT == 20

\* how many entries of section_builders the model runs
NSections == 3
\* how far the clock moves in one step, and how long it runs past the timeout
TimeStep == 10
Overtime == 10

MaxClock == SECTION_TIMEOUT + Overtime

all_section_names ==
    << <<"A", "l", "e", "r", "t", "s">>,
       <<"F", "o", "r", "e", "x">>,
       <<"I", "n", "d", "i", "c", "e", "s">>,
       <<"C", "o", "m", "m", "o", "d", "i", "t", "i", "e", "s">>,
       <<"N", "e", "w", "s">>,
       <<"C", "a", "l", "e", "n", "d", "a", "r">>,
       <<"P", "o", "r", "t", "f", "o", "l", "i", "o">> >>

\* the names of build_briefing's section_builders, in its order
section_names == SubSeq(all_section_names, 1, NSections)

\* f"Morning Finance Brief <dash> {date_str}" with date_str in "%A %d %b %Y";
\* the date is a sample and the source's long dash is written "-" (one
\* character either way)
header ==
    <<"M", "o", "r", "n", "i", "n", "g", " ", "F", "i", "n", "a", "n", "c",
    "e", " ", "B", "r", "i", "e", "f", " ", "-", " ", "W", "e", "d", "n",
    "e", "s", "d", "a", "y", " ", "0", "4", " ", "N", "o", "v", " ", "2",
    "0", "2", "6">>

\* what a builder may return: None, "", whitespace, or text naming the section
ReturnsNone == [kind |-> "value", is_none |-> TRUE, val |-> <<>>]

Returns(v) == [kind |-> "value", is_none |-> FALSE, val |-> v]

data_suffix ==
    <<":", " ", "D", "A", "T", "A", "\n", " ", " ", "l", "i", "n", "e", " ",
    "2">>

content(i) == section_names[i] \o data_suffix

BuilderValues(i) ==
    {ReturnsNone, Returns(<<>>), Returns(<<" ", "\n">>), Returns(content(i))}

\* what a builder may raise: an Exception, or the TimeoutError that
\* concurrent.futures.TimeoutError names
msg_boom ==
    <<"b", "o", "o", "m">>
msg_socket ==
    <<"r", "e", "a", "d", " ", "t", "i", "m", "e", "d", " ", "o", "u", "t">>

Raises(cls, m) == [kind |-> "error", cls |-> cls, msg |-> m]

BuilderErrors == {Raises("Exception", msg_boom), Raises("TimeoutError", msg_socket)}

\* future.result(timeout=SECTION_TIMEOUT) gave up waiting
TimedOut == [kind |-> "timeout"]

timed_out_suffix ==
    <<" ", "t", "i", "m", "e", "d", " ", "o", "u", "t", "]">>
unavailable_infix ==
    <<" ", "u", "n", "a", "v", "a", "i", "l", "a", "b", "l", "e", ":", " ">>

timed_out_text(name) == <<"[">> \o name \o timed_out_suffix

unavailable_text(name, m) == <<"[">> \o name \o unavailable_infix \o m \o <<"]">>

section_result_late(name, got) ==
    IF got.kind = "timeout" /\ fut # <<>> /\ fut[1].kind = "value" /\ ~fut[1].is_none
    THEN fut[1].val
    ELSE IF got.kind = "value"
    THEN IF got.is_none \/ got.val = <<>> THEN <<>> ELSE got.val
    ELSE IF got.kind = "timeout" \/ (got.kind = "error" /\ got.cls = "TimeoutError")
    THEN timed_out_text(name)
    ELSE unavailable_text(name, got.msg)

\* _run_section after the with block: `return result or ""` and the two
\* except clauses, in their order
section_result(name, got) ==
    IF got.kind = "value"
    THEN IF got.is_none \/ got.val = <<>> THEN <<>> ELSE got.val
    ELSE IF got.kind = "timeout" \/ (got.kind = "error" /\ got.cls = "TimeoutError")
    THEN timed_out_text(name)
    ELSE unavailable_text(name, got.msg)

collect_front(sections_, result_) ==
    IF is_blank(result_) THEN sections_ ELSE <<result_>> \o sections_

collect_nonempty(sections_, result_) ==
    IF result_ = <<>> THEN sections_ ELSE Append(sections_, result_)

\* if result.strip(): sections.append(result)
collect(sections_, result_) ==
    IF is_blank(result_) THEN sections_ ELSE Append(sections_, result_)

\* body = f"{header}\n{'=' * len(header)}\n\n" + "\n\n".join(sections)
compose(sections_) ==
    header \o <<"\n">> \o repeat("=", Len(header)) \o <<"\n", "\n">>
        \o join(<<"\n", "\n">>, sections_)


(***************************************************************************)
(* alerts.py                                                               *)
(***************************************************************************)
_next_id_by_count(alerts) == Len(alerts) + 1

_next_id_lowest_free(alerts) ==
    CHOOSE n \in 1..(Len(alerts) + 1) :
        /\ \A i \in 1..Len(alerts) : alerts[i].id # n
        /\ \A m \in 1..(n - 1) : \E i \in 1..Len(alerts) : alerts[i].id = m

\* alerts.py
_next_id(alerts) ==
    IF alerts = <<>> THEN 1
    ELSE Max({alerts[i].id : i \in 1..Len(alerts)}) + 1

\* market_data.get_stock: the dict _fetch_ticker yields, or None
get_stock(symbol) == market[symbol]

\* kw.upper() in text, Python's substring test
Contains(text, kw) ==
    \E k \in 0..(Len(text) - Len(kw)) :
        \A j \in 1..Len(kw) : text[k + j] = kw[j]

item_matches(item, keywords) ==
    LET text == upper(item.title \o <<" ">> \o item.summary)
    IN \E n \in 1..Len(keywords) : Contains(text, upper(keywords[n]))

Take(s, n) == IF Len(s) <= n THEN s ELSE SubSeq(s, 1, n)

\* news_scanner.scan_for_keywords(keywords, limit)
scan_for_keywords(keywords, limit) ==
    Take(SelectSeq(news, LAMBDA item : item_matches(item, keywords)), limit)

\* now_aedt().isoformat(): the program writes these stamps and never reads
\* them; the model writes one opaque stamp
now_aedt == "now"

add_fields_untimed(alert, t, evidence) ==
    evidence @@ [alert EXCEPT !.triggered = TRUE]

\* alert["triggered"] = True; alert["trigger_time"] = ...; alert[<evidence>] = ...
add_fields(alert, t, evidence) ==
    evidence @@ [trigger_time |-> t] @@ [alert EXCEPT !.triggered = TRUE]

\* What one pass of the loop body of check_alerts yields: the alert as it is
\* left, whether it was appended to `triggered`, and whether a data source
\* was asked about it.
Left(alert, asked) == [alert |-> alert, hit |-> FALSE, asked |-> asked]

Hit(alert) == [alert |-> alert, hit |-> TRUE, asked |-> TRUE]

check_price_strict(alert, t) ==
    LET data == get_stock(alert.symbol)
    IN IF data # None
       THEN IF alert.condition = "above" /\ data.price > alert.target
            THEN Hit(add_fields(alert, t, [trigger_price |-> data.price]))
            ELSE IF alert.condition = "below" /\ data.price < alert.target
            THEN Hit(add_fields(alert, t, [trigger_price |-> data.price]))
            ELSE Left(alert, TRUE)
       ELSE Left(alert, TRUE)

check_price(alert, t) ==
    LET data == get_stock(alert.symbol)
    IN IF data # None
       THEN IF alert.condition = "above" /\ data.price >= alert.target
            THEN Hit(add_fields(alert, t, [trigger_price |-> data.price]))
            ELSE IF alert.condition = "below" /\ data.price <= alert.target
            THEN Hit(add_fields(alert, t, [trigger_price |-> data.price]))
            ELSE Left(alert, TRUE)
       ELSE Left(alert, TRUE)

check_volatility_signed(alert, t) ==
    LET data == get_stock(alert.symbol)
    IN IF data # None
       THEN LET change == data.change_pct
            IN IF change >= alert.threshold_pct
               THEN Hit(add_fields(alert, t, [trigger_change_pct |-> data.change_pct]))
               ELSE Left(alert, TRUE)
       ELSE Left(alert, TRUE)

check_volatility(alert, t) ==
    LET data == get_stock(alert.symbol)
    IN IF data # None
       THEN LET change == Abs(data.change_pct)
            IN IF change >= alert.threshold_pct
               THEN Hit(add_fields(alert, t, [trigger_change_pct |-> data.change_pct]))
               ELSE Left(alert, TRUE)
       ELSE Left(alert, TRUE)

check_news_any(alert, t) ==
    LET matches == scan_for_keywords(alert.keywords, 3)
    IN Hit(add_fields(alert, t,
              [matched_headlines |->
                  [k \in 1..Len(Take(matches, 3)) |-> matches[k].title]]))

check_news(alert, t) ==
    LET matches == scan_for_keywords(alert.keywords, 3)
    IN IF matches # <<>>
       THEN Hit(add_fields(alert, t,
                   [matched_headlines |->
                       [k \in 1..Len(Take(matches, 3)) |-> matches[k].title]]))
       ELSE Left(alert, TRUE)

by_type(alert, t) ==
    IF alert.type = "price" THEN check_price(alert, t)
    ELSE IF alert.type = "volatility" THEN check_volatility(alert, t)
    ELSE IF alert.type = "news" THEN check_news(alert, t)
    ELSE Left(alert, FALSE)

check_one_again(alert, t) == by_type(alert, t)

check_one_unmarked(alert, t) ==
    IF alert.triggered
    THEN Left(alert, FALSE)
    ELSE LET r == by_type(alert, t)
         IN [r EXCEPT !.alert = [k \in DOMAIN r.alert |->
                                    IF k = "triggered" THEN FALSE ELSE r.alert[k]]]

check_one_restamped(alert, t) ==
    IF alert.triggered
    THEN Left(alert, FALSE)
    ELSE LET r == by_type(alert, t)
         IN [r EXCEPT !.alert = [r.alert EXCEPT !.created = "checked"]]

\* The loop body of check_alerts
check_one(alert, t) ==
    IF alert.triggered
    THEN Left(alert, FALSE)
    ELSE by_type(alert, t)

RECURSIVE hits(_, _)
\* the `triggered` list check_alerts builds, in loop order
hits(res, i) ==
    IF i > Len(res) THEN <<>>
    ELSE (IF res[i].hit THEN <<res[i].alert>> ELSE <<>>) \o hits(res, i + 1)

add_price_alert_unchecked(symbol, condition, target) ==
    /\ LET alerts == store
           alert == [id |-> _next_id(alerts),
                     type |-> "price",
                     symbol |-> symbol_upper(symbol),
                     condition |-> condition,
                     target |-> target,
                     created |-> now_aedt,
                     triggered |-> FALSE]
       IN /\ Len(alerts) < MaxAlerts
          /\ alert.id <= MaxId
          /\ store' = Append(alerts, alert)
          /\ wrote' = TRUE
          /\ msg' = <<"Alert", alert.id>>
    /\ lastOp' = "add"
    /\ returned' = <<>>
    /\ fetched' = {}
    /\ callBit' = 1 - callBit
    /\ UNCHANGED <<market, news>>

add_price_alert(symbol, condition, target) ==
    /\ IF condition \notin {"above", "below"}
       THEN /\ msg' = <<"Condition must be 'above' or 'below'">>
            /\ wrote' = FALSE
            /\ UNCHANGED store
       ELSE LET alerts == store
                alert == [id |-> _next_id(alerts),
                          type |-> "price",
                          symbol |-> symbol_upper(symbol),
                          condition |-> condition,
                          target |-> target,
                          created |-> now_aedt,
                          triggered |-> FALSE]
            IN /\ Len(alerts) < MaxAlerts
               /\ alert.id <= MaxId
               /\ store' = Append(alerts, alert)
               /\ wrote' = TRUE
               /\ msg' = <<"Alert", alert.id>>
    /\ lastOp' = "add"
    /\ returned' = <<>>
    /\ fetched' = {}
    /\ callBit' = 1 - callBit
    /\ UNCHANGED <<market, news>>

add_news_alert(keywords) ==
    /\ Len(store) < MaxAlerts
    /\ _next_id(store) <= MaxId
    /\ LET alerts == store
           alert == [id |-> _next_id(alerts),
                     type |-> "news",
                     keywords |-> [k \in 1..Len(keywords) |-> upper(keywords[k])],
                     created |-> now_aedt,
                     triggered |-> FALSE]
       IN /\ store' = Append(alerts, alert)
          /\ wrote' = TRUE
          /\ msg' = <<"Alert", alert.id>>
    /\ lastOp' = "add"
    /\ returned' = <<>>
    /\ fetched' = {}
    /\ callBit' = 1 - callBit
    /\ UNCHANGED <<market, news>>

add_volatility_alert(symbol, threshold_pct) ==
    /\ Len(store) < MaxAlerts
    /\ _next_id(store) <= MaxId
    /\ LET alerts == store
           alert == [id |-> _next_id(alerts),
                     type |-> "volatility",
                     symbol |-> symbol_upper(symbol),
                     threshold_pct |-> threshold_pct,
                     created |-> now_aedt,
                     triggered |-> FALSE]
       IN /\ store' = Append(alerts, alert)
          /\ wrote' = TRUE
          /\ msg' = <<"Alert", alert.id>>
    /\ lastOp' = "add"
    /\ returned' = <<>>
    /\ fetched' = {}
    /\ callBit' = 1 - callBit
    /\ UNCHANGED <<market, news>>

pop_through(alerts, alert_id) ==
    LET i == CHOOSE k \in 1..Len(alerts) :
                 /\ alerts[k].id = alert_id
                 /\ \A j \in 1..(k - 1) : alerts[j].id # alert_id
    IN SubSeq(alerts, 1, i - 1)

\* alerts.pop(i) for the first i whose id matches
pop_first(alerts, alert_id) ==
    LET i == CHOOSE k \in 1..Len(alerts) :
                 /\ alerts[k].id = alert_id
                 /\ \A j \in 1..(k - 1) : alerts[j].id # alert_id
    IN SubSeq(alerts, 1, i - 1) \o SubSeq(alerts, i + 1, Len(alerts))

remove_alert_by_index(alert_id) ==
    /\ LET alerts == store
       IN IF alert_id <= Len(alerts)
          THEN /\ store' = SubSeq(alerts, 1, alert_id - 1)
                            \o SubSeq(alerts, alert_id + 1, Len(alerts))
               /\ wrote' = TRUE
               /\ msg' = <<"Removed", alert_id>>
          ELSE /\ msg' = <<"not found", alert_id>>
               /\ wrote' = FALSE
               /\ UNCHANGED store
    /\ lastOp' = "remove"
    /\ returned' = <<>>
    /\ fetched' = {}
    /\ callBit' = 1 - callBit
    /\ UNCHANGED <<market, news>>

remove_alert(alert_id) ==
    /\ LET alerts == store
       IN IF \E i \in 1..Len(alerts) : alerts[i].id = alert_id
          THEN /\ store' = pop_first(alerts, alert_id)
               /\ wrote' = TRUE
               /\ msg' = <<"Removed", alert_id>>
          ELSE /\ msg' = <<"not found", alert_id>>
               /\ wrote' = FALSE
               /\ UNCHANGED store
    /\ lastOp' = "remove"
    /\ returned' = <<>>
    /\ fetched' = {}
    /\ callBit' = 1 - callBit
    /\ UNCHANGED <<market, news>>

\* scan_news raising instead of returning: the feed configuration cannot be
\* read (_load_feeds_config) while the news cache has nothing fresh
ScanFails == << [error |-> "scan_news raised"] >>

\* the positions at which the loop of check_alerts calls a news lookup that
\* raises; nothing in check_alerts catches it
raising(alerts) ==
    {i \in 1..Len(alerts) :
        ~alerts[i].triggered /\ alerts[i].type = "news" /\ news = ScanFails}

\* what a call of check_alerts does to the store and what it hands back
check_alerts_call ==
    /\ LET alerts == store
           res == [i \in 1..Len(alerts) |-> check_one(alerts[i], now_aedt)]
       IN IF raising(alerts) = {}
          THEN /\ store' = [i \in 1..Len(alerts) |-> res[i].alert]
               /\ wrote' = TRUE
               /\ returned' = hits(res, 1)
               /\ fetched' = {alerts[i].id : i \in {k \in 1..Len(alerts) : res[k].asked}}
               /\ lastOp' = "check"
          ELSE \* the error leaves check_alerts at the first such position:
               \* what the loop did so far is dropped with the local list
               /\ UNCHANGED store
               /\ wrote' = FALSE
               /\ returned' = <<>>
               /\ fetched' = {alerts[i].id : i \in {k \in 1..Lowest(raising(alerts)) :
                                                       ~alerts[k].triggered}}
               /\ lastOp' = "check raised"
    /\ msg' = <<>>
    /\ callBit' = 1 - callBit
    /\ UNCHANGED <<market, news>>

check_alerts ==
    /\ AlertsOnly
    /\ check_alerts_call

(***************************************************************************)
(* The environment: upstream data changes.  lastOp, msg, returned and      *)
(* fetched describe the operation that ran in the last step; a step of the *)
(* environment is no operation and clears them.                            *)
(***************************************************************************)
NoOperation ==
    /\ UNCHANGED callBit
    /\ lastOp' = "none"
    /\ msg' = <<>>
    /\ returned' = <<>>
    /\ fetched' = {}
    /\ wrote' = FALSE

MarketMoves ==
    /\ AlertsOnly
    /\ \E sym \in StoredSymbols, q \in Quotes \cup {None} :
          /\ market[sym] # q
          /\ market' = [market EXCEPT ![sym] = q]
    /\ NoOperation
    /\ UNCHANGED <<store, news>>

NewsMoves ==
    /\ AlertsOnly
    /\ \E feed \in NewsFeeds :
          /\ news # feed
          /\ news' = feed
    /\ NoOperation
    /\ UNCHANGED <<store, market>>

\* the news lookup starts to raise
NewsBreaks ==
    /\ AlertsOnly
    /\ news # ScanFails
    /\ news' = ScanFails
    /\ NoOperation
    /\ UNCHANGED <<store, market>>

AddPrice ==
    /\ AlertsOnly
    /\ \E s \in Symbols, c \in Conditions, t \in Targets : add_price_alert(s, c, t)

AddNews ==
    /\ AlertsOnly
    /\ \E kws \in KeywordLists : add_news_alert(kws)

\* add_news_alert with a keyword that is a phrase
AddNewsPhrase ==
    /\ AlertsOnly
    /\ \E kws \in PhraseLists : add_news_alert(kws)

AddVolatility ==
    /\ AlertsOnly
    /\ \E s \in Symbols, th \in Thresholds : add_volatility_alert(s, th)

Remove ==
    /\ AlertsOnly
    /\ \E id \in 1..MaxId : remove_alert(id)

AlertInit ==
    /\ store = <<>>
    /\ market = [s \in StoredSymbols |-> None]
    /\ news = <<>>
    /\ lastOp = "none"
    /\ msg = <<>>
    /\ returned = <<>>
    /\ fetched = {}
    /\ callBit = 0
    /\ wrote = FALSE

(***************************************************************************)
(* build_briefing and _run_section, step by step.  The builder runs in the *)
(* executor's worker thread; the clock moves only while the calling thread *)
(* is blocked, in future.result or in the executor's shutdown.             *)
(***************************************************************************)
BriefInit ==
    /\ bpc = "idle"
    /\ sec = 0
    /\ running = {}
    /\ fut = <<>>
    /\ waited = <<>>
    /\ elapsed = 0
    /\ result = <<>>
    /\ sections = <<>>
    /\ outcomes = <<>>
    /\ body = <<>>

\* build_briefing is called: sections = [], the loop reaches its first entry
StartBriefing ==
    /\ BriefingOnly
    /\ bpc = "idle"
    /\ bpc' = "submit"
    /\ sec' = 1
    /\ UNCHANGED <<running, fut, waited, elapsed, result, sections, outcomes, body>>

\* _run_section: future = executor.submit(func)
Submit ==
    /\ BriefingOnly
    /\ bpc = "submit"
    /\ running' = running \cup {sec}
    /\ fut' = <<>>
    /\ waited' = <<>>
    /\ elapsed' = 0
    /\ bpc' = "wait"
    /\ UNCHANGED <<sec, result, sections, outcomes, body>>

\* the worker thread: func() returns
BuilderReturns ==
    /\ BriefingOnly
    /\ sec \in running
    /\ \E v \in BuilderValues(sec) : fut' = <<v>>
    /\ running' = running \ {sec}
    /\ UNCHANGED <<bpc, sec, waited, elapsed, result, sections, outcomes, body>>

\* the worker thread: func() raises
BuilderRaises ==
    /\ BriefingOnly
    /\ sec \in running
    /\ \E e \in BuilderErrors : fut' = <<e>>
    /\ running' = running \ {sec}
    /\ UNCHANGED <<bpc, sec, waited, elapsed, result, sections, outcomes, body>>

\* future.result(timeout=SECTION_TIMEOUT): the future is done in time
WaitDone ==
    /\ BriefingOnly
    /\ bpc = "wait"
    /\ fut # <<>>
    /\ waited' = fut
    /\ bpc' = "shutdown"
    /\ UNCHANGED <<sec, running, fut, elapsed, result, sections, outcomes, body>>

\* future.result(timeout=SECTION_TIMEOUT): raises concurrent.futures.TimeoutError
WaitTimeout ==
    /\ BriefingOnly
    /\ bpc = "wait"
    /\ fut = <<>>
    /\ elapsed >= SECTION_TIMEOUT
    /\ waited' = <<TimedOut>>
    /\ bpc' = "shutdown"
    /\ UNCHANGED <<sec, running, fut, elapsed, result, sections, outcomes, body>>

shutdown_nowait == TRUE

\* the with block is left, by return or by exception:
\* ThreadPoolExecutor.__exit__ is shutdown(wait=True)
shutdown_returns == sec \notin running

\* the with block is left and _run_section returns
ExitWith ==
    /\ BriefingOnly
    /\ bpc = "shutdown"
    /\ shutdown_returns
    /\ result' = section_result(section_names[sec], waited[1])
    /\ bpc' = "collect"
    /\ UNCHANGED <<sec, running, fut, waited, elapsed, sections, outcomes, body>>

\* build_briefing: the loop body after _run_section, and the loop's advance
Collect ==
    /\ BriefingOnly
    /\ bpc = "collect"
    /\ sections' = collect(sections, result)
    /\ outcomes' = Append(outcomes, waited[1])
    /\ IF sec < Len(section_names)
       THEN /\ sec' = sec + 1
            /\ bpc' = "submit"
       ELSE /\ bpc' = "assemble"
            /\ UNCHANGED sec
    /\ UNCHANGED <<running, fut, waited, elapsed, result, body>>

\* build_briefing: body = ...; return truncate_for_telegram(body)
Assemble ==
    /\ BriefingOnly
    /\ bpc = "assemble"
    /\ body' = truncate_for_telegram(compose(sections), TELEGRAM_MAX_LENGTH)
    /\ bpc' = "done"
    /\ UNCHANGED <<sec, running, fut, waited, elapsed, result, sections, outcomes>>

\* the calling thread has nothing to do but wait
Blocked ==
    \/ bpc = "wait" /\ fut = <<>> /\ elapsed < SECTION_TIMEOUT
    \/ bpc = "shutdown" /\ ~shutdown_returns

Min(a, b) == IF a < b THEN a ELSE b

BriefTick ==
    /\ BriefingOnly
    /\ Blocked
    /\ elapsed < MaxClock
    /\ elapsed' = IF bpc = "wait"
                  THEN Min(elapsed + TimeStep, SECTION_TIMEOUT)
                  ELSE Min(elapsed + TimeStep, MaxClock)
    /\ UNCHANGED <<bpc, sec, running, fut, waited, result, sections, outcomes, body>>

BriefNext ==
    \/ StartBriefing
    \/ Submit
    \/ BuilderReturns
    \/ BuilderRaises
    \/ WaitDone
    \/ WaitTimeout
    \/ ExitWith
    \/ Collect
    \/ Assemble
    \/ BriefTick

(***************************************************************************)
(* truncate_for_telegram on its own, on texts built from lines of `x`.     *)
(***************************************************************************)
MaxLines == 3

LineLengths == {0, 1, 2016, 2047, 2048, 2049}

Texts ==
    {join(<<"\n">>, [i \in 1..Len(lens) |-> repeat("x", lens[i])]) :
        lens \in UNION {[1..n -> LineLengths] : n \in 1..MaxLines}}

TruncInit ==
    /\ input = <<>>
    /\ out = <<>>

\* a caller picks a text
PickText ==
    /\ TruncateOnly
    /\ input = <<>>
    /\ out = <<>>
    /\ \E t \in Texts : input' = t
    /\ out' = <<>>

\* truncate_for_telegram(input), max_length at its default
Truncate ==
    /\ TruncateOnly
    /\ out = <<>>
    /\ out' = <<truncate_for_telegram(input, TELEGRAM_MAX_LENGTH)>>
    /\ UNCHANGED input

TruncNext ==
    \/ PickText
    \/ Truncate

(***************************************************************************)
(* The add and remove operations with the history of the ids they assign.  *)
(***************************************************************************)
IdInit == highest = 0

\* the id the add of this step assigned, if it stored an alert
Assigns ==
    highest' = IF msg'[1] = "Alert" THEN Max({highest, msg'[2]}) ELSE highest

IdsAddPrice ==
    /\ UNCHANGED <<briefVars, truncVars, fetchVars, limiterVars, raceVars, batchVars,
                   scanVars>>
    /\ \E s \in Symbols, c \in Conditions, t \in Targets : add_price_alert(s, c, t)
    /\ Assigns

IdsAddNews ==
    /\ UNCHANGED <<briefVars, truncVars, fetchVars, limiterVars, raceVars, batchVars,
                   scanVars>>
    /\ \E kws \in KeywordLists : add_news_alert(kws)
    /\ Assigns

IdsAddVolatility ==
    /\ UNCHANGED <<briefVars, truncVars, fetchVars, limiterVars, raceVars, batchVars,
                   scanVars>>
    /\ \E s \in Symbols, th \in Thresholds : add_volatility_alert(s, th)
    /\ Assigns

IdsRemove ==
    /\ AlertsOnly
    /\ \E id \in 1..MaxId : remove_alert(id)

IdsNext ==
    \/ IdsAddPrice
    \/ IdsAddNews
    \/ IdsAddVolatility
    \/ IdsRemove

(***************************************************************************)
(* market_data._fetch_ticker for one cache key, with the FileCache of      *)
(* common/cache.py as the specification describes it (section 4.1).  The   *)
(* clock may advance at any time, also while _fetch_ticker is inside       *)
(* _limiter.acquire().                                                     *)
(***************************************************************************)
CACHE_TTL_MARKET_DATA == 300

STALE_CACHE_MAX_AGE == 86400

MaxTicks == 4

\* by how much the clock advances in one step: enough to put an entry at
\* and just beyond each of the two maximum ages
Delays == {1, CACHE_TTL_MARKET_DATA, STALE_CACHE_MAX_AGE - CACHE_TTL_MARKET_DATA - 1}

FetchQuotes == {q \in Quotes : q.price >= 10000}

\* ticker.history(period): it raises, it is empty, or it has rows
Histories ==
    {[kind |-> "raises"], [kind |-> "empty"]}
        \cup {[kind |-> "data", quote |-> q] : q \in FetchQuotes}

\* FileCache.get(key, ttl) at the present time
cache_get_strict(ttl) ==
    IF cache # <<>> /\ now - cache[1].written_at < ttl
    THEN cache[1].value
    ELSE None

cache_get(ttl) ==
    IF cache # <<>> /\ now - cache[1].written_at <= ttl
    THEN cache[1].value
    ELSE None

\* the entry FileCache.set(key, value) leaves
cache_set(value) == <<[value |-> value, written_at |-> now]>>

FetchInit ==
    /\ cache = <<>>
    /\ now = 0
    /\ ticks = 0
    /\ upstream = [kind |-> "raises"]
    /\ fpc = "idle"
    /\ lastGet = <<>>
    /\ fres = <<>>
    /\ ftrace = <<>>

\* _fetch_ticker up to _limiter.acquire()
FetchStart ==
    /\ FetchOnly
    /\ fpc = "idle"
    /\ LET cached == cache_get(CACHE_TTL_MARKET_DATA)
       IN /\ lastGet' = <<[ttl |-> CACHE_TTL_MARKET_DATA, result |-> cached]>>
          /\ IF cached # None
             THEN /\ fres' = <<[path |-> "fresh", value |-> cached]>>
                  /\ ftrace' = <<"get">>
                  /\ fpc' = "idle"
             ELSE /\ fres' = <<>>
                  /\ ftrace' = <<"get", "acquire">>
                  /\ fpc' = "acquire"
    /\ UNCHANGED <<cache, now, ticks, upstream>>

\* _fetch_ticker from the return of _limiter.acquire() on
FetchLive ==
    /\ FetchOnly
    /\ fpc = "acquire"
    /\ fpc' = "idle"
    /\ IF upstream.kind = "empty"
       THEN /\ fres' = <<[path |-> "empty", value |-> None]>>
            /\ ftrace' = ftrace \o <<"history">>
            /\ lastGet' = <<>>
            /\ UNCHANGED cache
       ELSE IF upstream.kind = "data"
       THEN /\ cache' = cache_set(upstream.quote)
            /\ fres' = <<[path |-> "live", value |-> upstream.quote]>>
            /\ ftrace' = ftrace \o <<"history", "set">>
            /\ lastGet' = <<>>
       ELSE LET stale == cache_get(STALE_CACHE_MAX_AGE)
            IN /\ lastGet' = <<[ttl |-> STALE_CACHE_MAX_AGE, result |-> stale]>>
               /\ fres' = <<[path |-> "stale", value |-> stale]>>
               /\ ftrace' = ftrace \o <<"history", "get">>
               /\ UNCHANGED cache
    /\ UNCHANGED <<now, ticks, upstream>>

\* a step of the environment is no call: it clears what the last call left
NoFetch ==
    /\ lastGet' = <<>>
    /\ fres' = <<>>
    /\ ftrace' = IF fpc = "idle" THEN <<>> ELSE ftrace

FetchTick ==
    /\ FetchOnly
    /\ ticks < MaxTicks
    /\ \E d \in Delays : now' = now + d
    /\ ticks' = ticks + 1
    /\ NoFetch
    /\ UNCHANGED <<cache, upstream, fpc>>

UpstreamChanges ==
    /\ FetchOnly
    /\ \E h \in Histories :
          /\ h # upstream
          /\ upstream' = h
    /\ NoFetch
    /\ UNCHANGED <<cache, now, ticks, fpc>>

FetchNext ==
    \/ FetchStart
    \/ FetchLive
    \/ FetchTick
    \/ UpstreamChanges

(***************************************************************************)
(* The RateLimiter of common/rate_limiter.py as the specification          *)
(* describes it (section 4.2), for a limiter with a small budget and       *)
(* window and several threads calling acquire.                             *)
(***************************************************************************)
Budget == 2

Period == 3

NCallers == 2

MaxTime == 5

Callers == 1..NCallers

\* the recorded calls that still count at time t: a call counts until
\* exactly Period seconds after it was recorded
in_window(calls, t) == SelectSeq(calls, LAMBDA at : t - at < Period)

LimiterInit ==
    /\ call_timestamps = <<>>
    /\ clock = 0
    /\ lpc = [c \in Callers |-> "idle"]

\* a thread calls acquire()
Call(c) ==
    /\ lpc[c] = "idle"
    /\ lpc' = [lpc EXCEPT ![c] = "acquire"]
    /\ UNCHANGED <<call_timestamps, clock>>

\* one pass of the bookkeeping of acquire, under the limiter's lock:
\* with fewer than Budget calls in the window the call is recorded and
\* acquire returns, otherwise the thread goes on waiting
admit_at_budget(c) ==
    /\ lpc[c] = "acquire"
    /\ Len(in_window(call_timestamps, clock)) <= Budget
    /\ call_timestamps' = Append(in_window(call_timestamps, clock), clock)
    /\ lpc' = [lpc EXCEPT ![c] = "idle"]
    /\ UNCHANGED clock

admit(c) ==
    /\ lpc[c] = "acquire"
    /\ Len(in_window(call_timestamps, clock)) < Budget
    /\ call_timestamps' = Append(in_window(call_timestamps, clock), clock)
    /\ lpc' = [lpc EXCEPT ![c] = "idle"]
    /\ UNCHANGED clock

Acquire ==
    /\ LimiterOnly
    /\ \E c \in Callers : Call(c)

Record ==
    /\ LimiterOnly
    /\ \E c \in Callers : admit(c)

LimiterTick ==
    /\ LimiterOnly
    /\ clock < MaxTime
    /\ clock' = clock + 1
    /\ UNCHANGED <<call_timestamps, lpc>>

LimiterNext ==
    \/ Acquire
    \/ Record
    \/ LimiterTick

(***************************************************************************)
(* Two alert operations at once: one thread in add_price_alert or          *)
(* remove_alert, another in check_alerts, each a _load_alerts followed by  *)
(* a _save_alerts.  alerts.py takes no lock, so the four steps interleave  *)
(* freely.  Before the two start, operations run one at a time.            *)
(***************************************************************************)
RaceInit ==
    /\ rpc = [mutator |-> "idle", checker |-> "idle"]
    /\ rlocal = [mutator |-> <<>>, checker |-> <<>>]
    /\ rop = "none"
    /\ rout = [mutator |-> <<>>, checker |-> <<>>]

\* the mutating steps leave the data sources and the outcome of the last
\* sequential operation alone
RaceOnly ==
    /\ UNCHANGED <<idVars, briefVars, truncVars, fetchVars, limiterVars, batchVars,
                   scanVars>>
    /\ UNCHANGED <<market, news, lastOp, msg, returned, fetched, callBit, wrote>>

Quiet == rpc.mutator = "idle" /\ rpc.checker = "idle"

SeqAddPrice == Quiet /\ AddPrice

SeqAddVolatility == Quiet /\ AddVolatility

SeqMarketMoves == Quiet /\ MarketMoves

\* alerts = _load_alerts() in add_price_alert or remove_alert
MutatorLoads ==
    /\ RaceOnly
    /\ rpc.mutator = "idle"
    /\ rpc' = [rpc EXCEPT !.mutator = "loaded"]
    /\ rlocal' = [rlocal EXCEPT !.mutator = store]
    /\ rop' \in {"add", "remove"}
    /\ UNCHANGED <<store, rout>>

\* the rest of add_price_alert: append and _save_alerts
AddSaves ==
    /\ RaceOnly
    /\ rpc.mutator = "loaded"
    /\ rop = "add"
    /\ LET alerts == rlocal.mutator
           alert == [id |-> _next_id(alerts),
                     type |-> "price",
                     symbol |-> symbol_upper("AAA"),
                     condition |-> "above",
                     target |-> 10000,
                     created |-> now_aedt,
                     triggered |-> FALSE]
       IN /\ store' = Append(alerts, alert)
          /\ rout' = [rout EXCEPT !.mutator = <<alert.id>>]
    /\ rpc' = [rpc EXCEPT !.mutator = "done"]
    /\ UNCHANGED <<rlocal, rop>>

\* the rest of remove_alert, for the id of the first alert: pop and
\* _save_alerts, or "not found" without a save
RemoveSaves ==
    /\ RaceOnly
    /\ rpc.mutator = "loaded"
    /\ rop = "remove"
    /\ LET alerts == rlocal.mutator
       IN IF \E i \in 1..Len(alerts) : alerts[i].id = 1
          THEN /\ store' = pop_first(alerts, 1)
               /\ rout' = [rout EXCEPT !.mutator = <<1>>]
          ELSE UNCHANGED <<store, rout>>
    /\ rpc' = [rpc EXCEPT !.mutator = "done"]
    /\ UNCHANGED <<rlocal, rop>>

\* alerts = _load_alerts() in check_alerts
CheckerLoads ==
    /\ RaceOnly
    /\ rpc.checker = "idle"
    /\ rpc' = [rpc EXCEPT !.checker = "loaded"]
    /\ rlocal' = [rlocal EXCEPT !.checker = store]
    /\ UNCHANGED <<store, rop, rout>>

\* the rest of check_alerts: the loop, _save_alerts and the return
CheckerSaves ==
    /\ RaceOnly
    /\ rpc.checker = "loaded"
    /\ raising(rlocal.checker) = {}
    /\ LET alerts == rlocal.checker
           res == [i \in 1..Len(alerts) |-> check_one(alerts[i], now_aedt)]
       IN /\ store' = [i \in 1..Len(alerts) |-> res[i].alert]
          /\ rout' = [rout EXCEPT !.checker = hits(res, 1)]
    /\ rpc' = [rpc EXCEPT !.checker = "done"]
    /\ UNCHANGED <<rlocal, rop>>

RaceNext ==
    \/ SeqAddPrice
    \/ SeqAddVolatility
    \/ SeqMarketMoves
    \/ MutatorLoads
    \/ AddSaves
    \/ RemoveSaves
    \/ CheckerLoads
    \/ CheckerSaves

(***************************************************************************)
(* check_alerts one alert at a time: _load_alerts, one pass of the loop    *)
(* body per alert, then _save_alerts and the return.  What a reader of     *)
(* alerts.json sees at any moment is `store`.  Adds and changes of the     *)
(* data sources happen between calls.                                      *)
(***************************************************************************)
BatchInit ==
    /\ cpc = "idle"
    /\ cidx = 0
    /\ clocal = <<>>
    /\ ctriggered = <<>>
    /\ cwrites = 0
    /\ cend = "none"
    /\ cret = <<>>

\* the steps of the call leave the data sources and the outcome of the last
\* whole operation alone
BatchOnly ==
    /\ UNCHANGED <<idVars, briefVars, truncVars, fetchVars, limiterVars, raceVars,
                   scanVars>>
    /\ UNCHANGED <<market, news, lastOp, msg, returned, fetched, callBit, wrote>>

Idle == cpc = "idle"

BatchAddPrice == Idle /\ AddPrice

BatchAddNews == Idle /\ AddNews

BatchMarketMoves == Idle /\ MarketMoves

BatchNewsMoves == Idle /\ NewsMoves

BatchNewsBreaks == Idle /\ NewsBreaks

\* alerts = _load_alerts(); triggered = []
BatchLoad ==
    /\ BatchOnly
    /\ cpc = "idle"
    /\ cpc' = "loop"
    /\ cidx' = 1
    /\ clocal' = store
    /\ ctriggered' = <<>>
    /\ cwrites' = 0
    /\ cend' = "none"
    /\ cret' = <<>>
    /\ UNCHANGED store

\* one pass of the loop body, changing the local lists only
BatchExamine ==
    /\ BatchOnly
    /\ cpc = "loop"
    /\ cidx <= Len(clocal)
    /\ cidx \notin raising(clocal)
    /\ LET r == check_one(clocal[cidx], now_aedt)
       IN /\ clocal' = [clocal EXCEPT ![cidx] = r.alert]
          /\ ctriggered' = IF r.hit THEN Append(ctriggered, r.alert) ELSE ctriggered
    /\ cidx' = cidx + 1
    /\ UNCHANGED <<store, cpc, cwrites, cend, cret>>

\* the pass reaches a news lookup that raises: the error leaves check_alerts
BatchRaise ==
    /\ BatchOnly
    /\ cpc = "loop"
    /\ cidx <= Len(clocal)
    /\ cidx \in raising(clocal)
    /\ cpc' = "idle"
    /\ cend' = "raised"
    /\ UNCHANGED <<store, cidx, clocal, ctriggered, cwrites, cret>>

\* the loop is over: _save_alerts(alerts); return triggered
BatchSave ==
    /\ BatchOnly
    /\ cpc = "loop"
    /\ cidx > Len(clocal)
    /\ store' = clocal
    /\ cwrites' = cwrites + 1
    /\ cret' = ctriggered
    /\ cend' = "returned"
    /\ cpc' = "idle"
    /\ UNCHANGED <<cidx, clocal, ctriggered>>

BatchNext ==
    \/ BatchAddPrice
    \/ BatchAddNews
    \/ BatchMarketMoves
    \/ BatchNewsMoves
    \/ BatchNewsBreaks
    \/ BatchLoad
    \/ BatchExamine
    \/ BatchRaise
    \/ BatchSave

(***************************************************************************)
(* news_scanner.scan_news for the key news_all (category None), over the   *)
(* FileCache of common/cache.py as the specification describes it.  The    *)
(* feed configuration of references/rss_feeds.json is taken as readable:   *)
(* two feeds and the keyword weights below.  The clock is the one of       *)
(* _fetch_ticker and may advance between the steps of a call.              *)
(***************************************************************************)
CACHE_TTL_NEWS == 900

MAX_ITEMS_PER_FEED == 10

MAX_TOTAL_ITEMS == 30

\* config["feeds"], in the order of the file
FeedIds == {1, 2}

feed_priority(f) == IF f = 1 THEN "medium" ELSE "high"

\* config["keyword_weights"]
KeywordWeights == [high |-> << <<"r">> >>, medium |-> << <<"b">> >>, low |-> << <<"x">> >>]

item_rB == [title |-> <<"r", "B">>, summary |-> <<>>]

\* feedparser.parse(url): it raises, or it has entries
FeedYields ==
    { [kind |-> "raises"],
      [kind |-> "entries", entries |-> <<item_rb, item_x>>],
      [kind |-> "entries", entries |-> <<item_rB>>] }

\* the `limit` arguments of the callers
Limits == {1, 15}

\* str.lower() on the characters the model uses
lower_char(c) ==
    CASE c = "R" -> "r"
      [] c = "B" -> "b"
      [] OTHER -> c

lower(s) == [i \in 1..Len(s) |-> lower_char(s[i])]

RECURSIVE weight(_, _)
\* how many of the words are in the text
weight(words, text) ==
    IF words = <<>> THEN 0
    ELSE (IF Contains(text, upper(Head(words))) THEN 1 ELSE 0) + weight(Tail(words), text)

_score_item(title, summary, keywords) ==
    LET text == upper(title \o <<" ">> \o summary)
    IN 3 * weight(keywords.high, text) + 2 * weight(keywords.medium, text)
          + weight(keywords.low, text)

\* _parse_feed(url, max_items): the entries as items, [] when parse raises
_parse_feed(f, max_items) ==
    IF feedsNow[f].kind = "raises" THEN <<>>
    ELSE LET entries == Take(feedsNow[f].entries, max_items)
         IN [k \in 1..Len(entries) |->
                [title |-> entries[k].title, summary |-> entries[k].summary]]

\* the loop body of scan_news for one feed: source, priority and score
scored(items, f) ==
    [k \in 1..Len(items) |->
        [title |-> items[k].title,
         summary |-> items[k].summary,
         source |-> f,
         priority |-> feed_priority(f),
         score |-> _score_item(items[k].title, items[k].summary, KeywordWeights)]]

RECURSIVE unique_items(_, _)
\* the first item of every title_key, in order
unique_items(items, seen_titles) ==
    IF items = <<>> THEN <<>>
    ELSE LET title_key == lower(prefix(Head(items).title, 60))
         IN IF title_key \in seen_titles
            THEN unique_items(Tail(items), seen_titles)
            ELSE <<Head(items)>> \o unique_items(Tail(items), seen_titles \cup {title_key})

priority_order(p) ==
    CASE p = "high" -> 0
      [] p = "medium" -> 1
      [] p = "low" -> 2
      [] OTHER -> 1

\* the sort key (-score, priority_order) of x is smaller than that of y
key_less(x, y) ==
    \/ x.score > y.score
    \/ x.score = y.score /\ priority_order(x.priority) < priority_order(y.priority)

RECURSIVE insert_item(_, _)
insert_item(x, sorted) ==
    IF sorted = <<>> THEN <<x>>
    ELSE IF key_less(Head(sorted), x)
    THEN <<Head(sorted)>> \o insert_item(x, Tail(sorted))
    ELSE <<x>> \o sorted

RECURSIVE sort_items(_)
\* list.sort(key=...): stable
sort_items(items) ==
    IF items = <<>> THEN <<>>
    ELSE insert_item(Head(items), sort_items(Tail(items)))

\* FileCache.get on the news entry: <<>> for absent, <<value>> for a value,
\* which may be the empty list
news_cache_get(ttl) ==
    IF ncache # <<>> /\ now - ncache[1].written_at <= ttl
    THEN <<ncache[1].value>>
    ELSE <<>>

ScanInit ==
    /\ ncache = <<>>
    /\ feedsNow = [f \in FeedIds |-> [kind |-> "raises"]]
    /\ spc = "idle"
    /\ sidx = 0
    /\ all_items = <<>>
    /\ slimit = 0
    /\ strace = <<>>
    /\ sres = <<>>

ScanOnly ==
    /\ UNCHANGED <<alertVars, idVars, briefVars, truncVars, limiterVars, raceVars, batchVars>>
    /\ UNCHANGED <<cache, upstream, fpc, lastGet, fres, ftrace>>

ScanStartAlways ==
    /\ ScanOnly
    /\ spc = "idle"
    /\ \E limit \in Limits : slimit' = limit
    /\ sres' = <<>>
    /\ strace' = <<"get", "config">>
    /\ spc' = "feeds"
    /\ sidx' = 1
    /\ all_items' = <<>>
    /\ UNCHANGED <<ncache, feedsNow, now, ticks>>

\* scan_news up to the loop over the feeds
ScanStart ==
    /\ ScanOnly
    /\ spc = "idle"
    /\ \E limit \in Limits :
          LET cached == news_cache_get(CACHE_TTL_NEWS)
          IN /\ slimit' = limit
             /\ IF cached # <<>>
                THEN /\ sres' = <<[path |-> "fresh", value |-> Take(cached[1], limit)]>>
                     /\ strace' = <<"get">>
                     /\ spc' = "idle"
                     /\ UNCHANGED <<sidx, all_items>>
                ELSE /\ sres' = <<>>
                     /\ strace' = <<"get", "config">>
                     /\ spc' = "feeds"
                     /\ sidx' = 1
                     /\ all_items' = <<>>
    /\ UNCHANGED <<ncache, feedsNow, now, ticks>>

\* one pass of the loop: _parse_feed, then source, priority and score
ScanParse ==
    /\ ScanOnly
    /\ spc = "feeds"
    /\ sidx \in FeedIds
    /\ all_items' = all_items \o scored(_parse_feed(sidx, MAX_ITEMS_PER_FEED), sidx)
    /\ strace' = Append(strace, "parse")
    /\ sidx' = sidx + 1
    /\ UNCHANGED <<ncache, feedsNow, spc, slimit, sres, now, ticks>>

\* after the loop: deduplicate, sort, cut to max_total
scan_result(items) ==
    Take(sort_items(unique_items(items, {})), MAX_TOTAL_ITEMS)

\* scan_news from the end of the loop on: _cache.set and the return
ScanFinish ==
    /\ ScanOnly
    /\ spc = "feeds"
    /\ sidx \notin FeedIds
    /\ LET result_ == scan_result(all_items)
       IN /\ ncache' = <<[value |-> result_, written_at |-> now]>>
          /\ sres' = <<[path |-> "live", value |-> Take(result_, slimit)]>>
    /\ strace' = Append(strace, "set")
    /\ spc' = "idle"
    /\ sidx' = 0
    /\ all_items' = <<>>
    /\ UNCHANGED <<feedsNow, slimit, now, ticks>>

\* a step of the environment is no call: it clears what a finished call left
NoScan ==
    /\ strace' = IF spc = "idle" THEN <<>> ELSE strace
    /\ sres' = <<>>
    /\ slimit' = IF spc = "idle" THEN 0 ELSE slimit

\* what a feed yields changes
FeedsChange ==
    /\ ScanOnly
    /\ \E f \in FeedIds, y \in FeedYields :
          /\ feedsNow[f] # y
          /\ feedsNow' = [feedsNow EXCEPT ![f] = y]
    /\ NoScan
    /\ UNCHANGED <<ncache, spc, sidx, all_items, now, ticks>>

\* the clock advances
ScanTick ==
    /\ ScanOnly
    /\ ticks < MaxTicks
    /\ \E d \in Delays : now' = now + d
    /\ ticks' = ticks + 1
    /\ NoScan
    /\ UNCHANGED <<ncache, feedsNow, spc, sidx, all_items>>

(***************************************************************************)
(* The two producers.  They share no state: their FileCache instances have *)
(* the namespaces market_data and news, and only market_data has a         *)
(* limiter, so what one of them does never depends on what the other has   *)
(* done.  A behaviour follows one producer from the initial state.         *)
(***************************************************************************)
NewsUnused ==
    /\ ncache = <<>>
    /\ spc = "idle"
    /\ strace = <<>>
    /\ sres = <<>>
    /\ \A f \in FeedIds : feedsNow[f].kind = "raises"

MarketUnused ==
    /\ cache = <<>>
    /\ fpc = "idle"
    /\ ftrace = <<>>
    /\ fres = <<>>
    /\ upstream.kind = "raises"

MarketStart == NewsUnused /\ FetchStart

MarketLive == NewsUnused /\ FetchLive

MarketTick == NewsUnused /\ FetchTick

MarketChanges == NewsUnused /\ UpstreamChanges

NewsStart == MarketUnused /\ ScanStart

NewsParse == MarketUnused /\ ScanParse

NewsFinish == MarketUnused /\ ScanFinish

NewsFeedsChange == MarketUnused /\ FeedsChange

NewsTick == MarketUnused /\ ScanTick

ProducerNext ==
    \/ MarketStart
    \/ MarketLive
    \/ MarketTick
    \/ MarketChanges
    \/ NewsStart
    \/ NewsParse
    \/ NewsFinish
    \/ NewsFeedsChange
    \/ NewsTick

(***************************************************************************)
(* Specifications                                                          *)
(***************************************************************************)
Init ==
    /\ AlertInit /\ IdInit /\ BriefInit /\ TruncInit /\ FetchInit /\ LimiterInit
    /\ RaceInit /\ BatchInit /\ ScanInit

Next ==
    \/ AddPrice
    \/ AddNews
    \/ AddVolatility
    \/ Remove
    \/ check_alerts
    \/ MarketMoves
    \/ NewsMoves

Spec == Init /\ [][Next]_vars

SpecBrief == Init /\ [][BriefNext]_vars

SpecTrunc == Init /\ [][TruncNext]_vars

SpecIds == Init /\ [][IdsNext]_vars

SpecFetch == Init /\ [][FetchNext]_vars

SpecLimiter == Init /\ [][LimiterNext]_vars

SpecRace == Init /\ [][RaceNext]_vars

SpecBatch == Init /\ [][BatchNext]_vars

SpecProducers == Init /\ [][ProducerNext]_vars

\* Spec with news lookups that may raise
FailNext ==
    \/ AddPrice
    \/ AddNews
    \/ AddVolatility
    \/ Remove
    \/ check_alerts
    \/ MarketMoves
    \/ NewsMoves
    \/ NewsBreaks

SpecFail == Init /\ [][FailNext]_vars

\* news alerts on single words and on phrases
NewsNext ==
    \/ AddNews
    \/ AddNewsPhrase
    \/ Remove
    \/ check_alerts
    \/ NewsMoves

SpecNews == Init /\ [][NewsNext]_vars

(***************************************************************************)
(* The Alerts section of the briefing over the alert store:                *)
(* _build_alerts_section runs check_alerts in the worker thread of         *)
(* _run_section and formats what it returned.  Alerts are added and the    *)
(* upstream data moves before the briefing starts; the later sections     *)
(* return their text without delay (SpecBrief runs them in full).          *)
(***************************************************************************)
Digits == <<"0", "1", "2", "3", "4", "5", "6", "7", "8", "9">>

RECURSIVE digits(_)
\* str(n) for an int n >= 0
digits(n) ==
    IF n < 10 THEN <<Digits[n + 1]>>
    ELSE digits(n \div 10) \o <<Digits[(n % 10) + 1]>>

\* n written with at least w digits
padded(n, w) ==
    LET d == digits(n)
    IN IF Len(d) >= w THEN d ELSE repeat("0", w - Len(d)) \o d

RECURSIVE grouped(_)
\* the `,` of the format spec: groups of three digits
grouped(n) ==
    IF n < 1000 THEN digits(n)
    ELSE grouped(n \div 1000) \o <<",">> \o padded(n % 1000, 3)

not_available ==
    <<"N", "/", "A">>

\* format_price(value) for a number: f"{value:,.2f}", value in cents
format_price(value) ==
    (IF value < 0 THEN <<"-">> ELSE <<>>)
        \o grouped(Abs(value) \div 100) \o <<".">> \o padded(Abs(value) % 100, 2)

\* format_change(value) for a number: sign, f"{value:.2f}" and "%", value in
\* hundredths
format_change(value) ==
    (IF value >= 0 THEN <<"+">> ELSE <<"-">>)
        \o digits(Abs(value) \div 100) \o <<".">> \o padded(Abs(value) % 100, 2)
        \o <<"%">>

\* str(x) of a float x >= 0 given in hundredths: 500 is "5.0", 525 is "5.25"
float_str(h) ==
    digits(h \div 100) \o <<".">>
        \o (IF h % 10 = 0 THEN digits((h % 100) \div 10) ELSE padded(h % 100, 2))

\* the characters of the symbols and conditions an alert of the model holds
chars(s) ==
    CASE s = "AAA" -> <<"A", "A", "A">>
      [] s = "above" -> <<"a", "b", "o", "v", "e">>
      [] s = "below" -> <<"b", "e", "l", "o", "w">>

triggered_title ==
    <<"A", "L", "E", "R", "T", "S", " ", "T", "R", "I", "G", "G", "E",
    "R", "E", "D", ":">>

news_match_for ==
    <<"N", "e", "w", "s", " ", "m", "a", "t", "c", "h", " ", "f", "o",
    "r", ":", " ">>

\* format_price(a.get(name)) and format_change(a.get(name)): "N/A" for None
price_of(a, name) ==
    IF name \in DOMAIN a THEN format_price(a[name]) ELSE not_available

change_of(a, name) ==
    IF name \in DOMAIN a THEN format_change(a[name]) ELSE not_available

\* the lines format_triggered_output appends for one alert
alert_lines(a) ==
    LET tag == <<" ", " ", "#">> \o digits(a.id) \o <<" ">>
    IN IF a.type = "price"
       THEN << tag \o chars(a.symbol) \o <<" ", "h", "i", "t", " ">>
                   \o price_of(a, "trigger_price")
                   \o <<" ", "(", "t", "a", "r", "g", "e", "t", ":", " ">>
                   \o chars(a.condition) \o <<" ">> \o format_price(a.target)
                   \o <<")">> >>
       ELSE IF a.type = "volatility"
       THEN << tag \o chars(a.symbol) \o <<" ", "m", "o", "v", "e", "d", " ">>
                   \o change_of(a, "trigger_change_pct")
                   \o <<" ", "(", "t", "h", "r", "e", "s", "h", "o", "l", "d", ":", " ">>
                   \o float_str(a.threshold_pct) \o <<"%", ")">> >>
       ELSE IF a.type = "news"
       THEN LET heads == IF "matched_headlines" \in DOMAIN a
                         THEN a.matched_headlines ELSE <<>>
            IN << tag \o news_match_for \o join(<<",", " ">>, a.keywords) >>
                  \o [k \in 1..Len(heads) |->
                         <<" ", " ", " ", " ", "-", " ">> \o heads[k]]
       ELSE <<>>

RECURSIVE all_lines(_)
all_lines(triggered) ==
    IF triggered = <<>> THEN <<>>
    ELSE alert_lines(Head(triggered)) \o all_lines(Tail(triggered))

\* alerts.format_triggered_output
format_triggered_output(triggered) ==
    IF triggered = <<>> THEN <<>>
    ELSE join(<<"\n">>, <<triggered_title>> \o all_lines(triggered))

\* str(e) of the error a failing news lookup raises
msg_scan ==
    <<"s", "c", "a", "n", "_", "n", "e", "w", "s", " ", "r", "a", "i",
    "s", "e", "d">>

\* what _build_alerts_section returns once check_alerts has ended: the
\* formatted list, "" for an empty list, its own placeholder for an error
_build_alerts_section(ended, triggered) ==
    IF ended = "check raised"
    THEN Returns(unavailable_text(all_section_names[1], msg_scan))
    ELSE IF triggered = <<>> THEN Returns(<<>>)
    ELSE Returns(format_triggered_output(triggered))

\* the worker thread: _build_alerts_section runs check_alerts and returns
AlertsBuilderRuns ==
    /\ UNCHANGED <<idVars, truncVars, fetchVars, limiterVars, raceVars,
                   batchVars, scanVars>>
    /\ sec = 1
    /\ sec \in running
    /\ check_alerts_call
    /\ fut' = <<_build_alerts_section(lastOp', returned')>>
    /\ running' = running \ {sec}
    /\ UNCHANGED <<bpc, sec, waited, elapsed, result, sections, outcomes, body>>

\* the worker thread of a later section: its builder returns its text at once
OtherBuilderReturns ==
    /\ BriefingOnly
    /\ sec # 1
    /\ sec \in running
    /\ fut' = <<Returns(content(sec))>>
    /\ running' = running \ {sec}
    /\ UNCHANGED <<bpc, sec, waited, elapsed, result, sections, outcomes, body>>

\* time passes while the Alerts builder runs
AlertsTick == sec = 1 /\ BriefTick

\* before the briefing is built
NotBuilding == bpc = "idle"

EarlierAddPrice == NotBuilding /\ AddPrice

EarlierAddNews == NotBuilding /\ AddNews

EarlierAddVolatility == NotBuilding /\ AddVolatility

EarlierCheck == NotBuilding /\ check_alerts

EarlierMarketMoves == NotBuilding /\ MarketMoves

EarlierNewsMoves == NotBuilding /\ NewsMoves

EarlierNewsBreaks == NotBuilding /\ NewsBreaks

AlertsBriefNext ==
    \/ EarlierAddPrice
    \/ EarlierAddNews
    \/ EarlierAddVolatility
    \/ EarlierCheck
    \/ EarlierMarketMoves
    \/ EarlierNewsMoves
    \/ EarlierNewsBreaks
    \/ StartBriefing
    \/ Submit
    \/ AlertsBuilderRuns
    \/ OtherBuilderReturns
    \/ WaitDone
    \/ WaitTimeout
    \/ ExitWith
    \/ Collect
    \/ Assemble
    \/ AlertsTick

SpecAlertsBrief == Init /\ [][AlertsBriefNext]_vars

(***************************************************************************)
(* Claims about the alert store, checked under Spec.                       *)
(***************************************************************************)
\* the step is one call of check_alerts
CheckStep == lastOp' = "check" /\ callBit' # callBit

\* the step is remove_alert deleting the alert with this id
RemoveStep(id) == lastOp' = "remove" /\ callBit' # callBit /\ msg' = <<"Removed", id>>

Ids(alerts) == {alerts[i].id : i \in 1..Len(alerts)}

TriggerFields == {"trigger_time", "trigger_price", "trigger_change_pct", "matched_headlines"}

\* C1: an alert stored as triggered stays in the store exactly as it is, in
\* every step that does not remove it; a check_alerts step keeps it at its
\* position with every field unchanged, fetches no data for it and does not
\* return it.
C1_TriggeredIsTerminal ==
    [][\A i \in 1..Len(store) :
          store[i].triggered =>
             \/ RemoveStep(store[i].id)
             \/ /\ \E j \in 1..Len(store') : store'[j] = store[i]
                /\ CheckStep =>
                      /\ store'[i] = store[i]
                      /\ store[i].id \notin fetched'
                      /\ store[i].id \notin Ids(returned')]_vars

\* A check_alerts call has just passed over a price alert that an earlier call
\* triggered, at a price other than the current one, which no longer meets
\* the alert's condition.
C1_Witness ==
    /\ lastOp = "check"
    /\ \E i \in 1..Len(store) :
          /\ store[i].triggered
          /\ store[i].type = "price"
          /\ store[i].id \notin fetched
          /\ store[i].id \notin Ids(returned)
          /\ get_stock(store[i].symbol) # None
          /\ get_stock(store[i].symbol).price # store[i].trigger_price
          /\ ~(store[i].condition = "above"
                  /\ get_stock(store[i].symbol).price >= store[i].target)
          /\ ~(store[i].condition = "below"
                  /\ get_stock(store[i].symbol).price <= store[i].target)

\* C2: a check_alerts call that directly follows another one, with no add,
\* no remove and no change of the upstream data in between, returns the empty
\* list, so none of the alerts the first call returned.
C2_SecondCheckReturnsNothing ==
    [][(lastOp = "check" /\ CheckStep) =>
          /\ Ids(returned) \cap Ids(returned') = {}
          /\ returned' = <<>>]_vars

\* Two calls in a row: the first triggered an alert whose condition still
\* holds on the unchanged data, the second returned nothing.
C2_Witness ==
    /\ lastOp = "check"
    /\ returned = <<>>
    /\ fetched = {}
    /\ \E i \in 1..Len(store) :
          /\ store[i].triggered
          /\ store[i].type = "volatility"
          /\ get_stock(store[i].symbol) # None
          /\ store[i].trigger_change_pct = get_stock(store[i].symbol).change_pct

\* C3: in a check_alerts call, a pending price alert whose symbol has data is
\* triggered iff (above and price >= target) or (below and price <= target);
\* price = target triggers under both conditions, one cent on the wrong side
\* triggers under neither; the evidence is the price.
C3_PriceTrigger ==
    [][CheckStep =>
          \A i \in 1..Len(store) :
             LET a == store[i]
                 data == get_stock(a.symbol)
             IN (a.type = "price" /\ ~a.triggered /\ data # None) =>
                   /\ store'[i].triggered <=>
                         \/ a.condition = "above" /\ data.price >= a.target
                         \/ a.condition = "below" /\ data.price <= a.target
                   /\ data.price = a.target => store'[i].triggered
                   /\ (a.condition = "above" /\ data.price = a.target - 1)
                         => ~store'[i].triggered
                   /\ (a.condition = "below" /\ data.price = a.target + 1)
                         => ~store'[i].triggered
                   /\ store'[i].triggered =>
                         /\ store'[i].trigger_price = data.price
                         /\ store'[i].id \in Ids(returned')]_vars

\* One call triggered an `above` and a `below` alert at a price equal to the
\* target of both.
C3_Witness ==
    /\ lastOp = "check"
    /\ \E a, b \in Range(returned) :
          /\ a.type = "price" /\ a.condition = "above" /\ a.trigger_price = a.target
          /\ b.type = "price" /\ b.condition = "below" /\ b.trigger_price = b.target

NoData(a) ==
    IF a.type = "news" THEN scan_for_keywords(a.keywords, 3) = <<>>
    ELSE get_stock(a.symbol) = None

\* C5: in a check_alerts call, a pending alert whose data source returns
\* nothing is left as it was: pending, without trigger fields, not returned.
C5_NoDataNoTrigger ==
    [][CheckStep =>
          \A i \in 1..Len(store) :
             (~store[i].triggered /\ NoData(store[i])) =>
                /\ store'[i] = store[i]
                /\ ~store'[i].triggered
                /\ DOMAIN store'[i] \cap TriggerFields = {}
                /\ store[i].id \notin Ids(returned')]_vars

\* A call asked for the data of a price or volatility alert and of a news
\* alert, got nothing for either, and left both pending.
C5_Witness ==
    /\ lastOp = "check"
    /\ \E i, j \in 1..Len(store) :
          /\ store[i].type \in {"price", "volatility"}
          /\ store[j].type = "news"
          /\ {store[i].id, store[j].id} \subseteq fetched
          /\ NoData(store[i]) /\ NoData(store[j])
          /\ ~store[i].triggered /\ ~store[j].triggered

(***************************************************************************)
(* Claims about build_briefing, checked under SpecBrief.                   *)
(***************************************************************************)
\* C6: _run_section is back with its caller as soon as SECTION_TIMEOUT has
\* elapsed: the calling thread is never inside _run_section, waiting for the
\* future or leaving the with block, later than SECTION_TIMEOUT after the
\* builder was submitted.
C6_ReturnsWhenTimeoutElapses ==
    bpc \in {"wait", "shutdown"} => elapsed <= SECTION_TIMEOUT

Owners(entry) ==
    {i \in 1..Len(section_names) :
        \/ entry = content(i)
        \/ entry = timed_out_text(section_names[i])
        \/ \E e \in BuilderErrors : entry = unavailable_text(section_names[i], e.msg)}

\* 1-based places where `part` occurs in `whole`
Occurrences(part, whole) ==
    {k \in 1..(Len(whole) - Len(part) + 1) :
        \A j \in 1..Len(part) : whole[k + j - 1] = part[j]}

\* C8: the bodies collected so far come from distinct sections in the order
\* of section_builders, whatever each builder did and however long it took,
\* and they stand in that order in the text build_briefing returns.
C8_SectionOrder ==
    /\ \A k \in 1..Len(sections) : Cardinality(Owners(sections[k])) = 1
    /\ \A k, l \in 1..Len(sections) :
          k < l => \A i \in Owners(sections[k]), j \in Owners(sections[l]) : i < j
    /\ bpc = "done" =>
          /\ \A k \in 1..Len(sections) : Occurrences(sections[k], body) # {}
          /\ \A k, l \in 1..Len(sections) :
                k < l => \A x \in Occurrences(sections[k], body),
                            y \in Occurrences(sections[l], body) : x < y

\* build_briefing has returned; the first section timed out, the second
\* returned text and the third raised, and all three are in the composite.
C8_Witness ==
    /\ bpc = "done"
    /\ Len(outcomes) >= 3
    /\ outcomes[1].kind = "timeout"
    /\ outcomes[2] = Returns(content(2))
    /\ outcomes[3].kind = "error"
    /\ Len(sections) >= 3

\* the builder of a finished section returned empty content
EmptyOutcome(o) == o.kind = "value" /\ (o.is_none \/ is_blank(o.val))

\* the results of the sections that did not return empty content, in order
RemainingResults ==
    LET kept == SelectSeq([i \in 1..Len(outcomes) |-> i],
                          LAMBDA i : ~EmptyOutcome(outcomes[i]))
    IN [k \in 1..Len(kept) |-> section_result(section_names[kept[k]], outcomes[kept[k]])]

\* C9: a section whose builder returned "", None or only whitespace adds
\* nothing: the collected bodies, and the composite made of them, are those
\* of the remaining sections alone.
C9_EmptySectionsDropped ==
    /\ sections = RemainingResults
    /\ bpc = "done" =>
          body = truncate_for_telegram(compose(RemainingResults), TELEGRAM_MAX_LENGTH)

\* build_briefing has returned after one builder returned None, one returned
\* whitespace only, and one returned text.
C9_Witness ==
    /\ bpc = "done"
    /\ \E i, j, k \in 1..Len(outcomes) :
          /\ outcomes[i] = ReturnsNone
          /\ outcomes[j] = Returns(<<" ", "\n">>)
          /\ outcomes[k] = Returns(content(k))
    /\ Len(sections) = 1

(***************************************************************************)
(* Claims about truncate_for_telegram, checked under SpecTrunc.            *)
(***************************************************************************)
ends_with(s, suffix) ==
    /\ Len(s) >= Len(suffix)
    /\ SubSeq(s, Len(s) - Len(suffix) + 1, Len(s)) = suffix

is_prefix(p, s) == Len(p) <= Len(s) /\ SubSeq(s, 1, Len(p)) = p

\* C10: with the configured maximum, a text no longer than the maximum comes
\* back unchanged; a longer one comes back no longer than the maximum, ending
\* with the truncation marker, and what stands before the marker is a prefix
\* of the text.
C10_TruncateWithinLimit ==
    out # <<>> =>
        IF Len(input) <= TELEGRAM_MAX_LENGTH
        THEN out[1] = input
        ELSE /\ Len(out[1]) <= TELEGRAM_MAX_LENGTH
             /\ ends_with(out[1], TruncationMarker)
             /\ is_prefix(SubSeq(out[1], 1, Len(out[1]) - Len(TruncationMarker)), input)

\* A text one character longer than the maximum has been truncated.
C10_Witness ==
    /\ out # <<>>
    /\ Len(input) = TELEGRAM_MAX_LENGTH + 1
    /\ out[1] # input

\* the part of a truncated text that stands before the marker
kept_prefix == SubSeq(out[1], 1, Len(out[1]) - Len(TruncationMarker))

\* a line of the text ends right after its first n characters
line_ends_at(text, n) == n = Len(text) \/ text[n + 1] = "\n"

\* 1-based positions of the line breaks that truncate_for_telegram accepts as
\* a cut: inside the first max - 30 characters, at a 0-based index above max // 2
late_breaks(text) ==
    {i \in 1..Min(Len(text), TELEGRAM_MAX_LENGTH - 30) :
        text[i] = "\n" /\ i - 1 > TELEGRAM_MAX_LENGTH \div 2}

\* C11 (as claimed): every text longer than the maximum is cut at a line
\* break: the kept prefix ends exactly where a line of the text ends.
C11_AlwaysCutAtLineBreak ==
    (out # <<>> /\ Len(input) > TELEGRAM_MAX_LENGTH) =>
        line_ends_at(input, Len(kept_prefix))

\* C11 (amended): a text longer than the maximum that has a line break in
\* its first max - 30 characters at an index above max // 2 is cut at the last
\* such line break, so the kept prefix ends where a line ends; any other
\* text longer than the maximum keeps exactly its first max - 30 characters.
C11_CutAtLateLineBreak ==
    (out # <<>> /\ Len(input) > TELEGRAM_MAX_LENGTH) =>
        IF late_breaks(input) # {}
        THEN /\ Len(kept_prefix) + 1 = Max(late_breaks(input))
             /\ line_ends_at(input, Len(kept_prefix))
        ELSE kept_prefix = SubSeq(input, 1, TELEGRAM_MAX_LENGTH - 30)

\* A text of two lines of 2049 characters and a third has been cut at the
\* line break that follows its first line.
C11_Witness ==
    /\ out # <<>>
    /\ Len(input) > TELEGRAM_MAX_LENGTH
    /\ late_breaks(input) # {}
    /\ Len(kept_prefix) = 2049
    /\ input[2050] = "\n"

(***************************************************************************)
(* More claims about the alert store, checked under Spec.                  *)
(***************************************************************************)
\* the step is one call of remove_alert
RemoveCall == lastOp' = "remove" /\ callBit' # callBit

\* C12: remove_alert called with an id that no stored alert has returns the
\* "not found" message for that id and leaves the store as it is, without
\* writing it; called again with the same id right after, it returns the
\* same message and again leaves the store as it is.
C12_RemoveMissingId ==
    [][(RemoveCall /\ msg'[2] \notin Ids(store)) =>
          /\ msg'[1] = "not found"
          /\ store' = store
          /\ ~wrote'
          /\ (lastOp = "remove" /\ msg[2] = msg'[2] /\ msg[1] = "not found")
                => msg' = msg]_vars

\* remove_alert has missed on a store that holds alerts, with an id smaller
\* than a stored one.
C12_Witness ==
    /\ lastOp = "remove"
    /\ msg[1] = "not found"
    /\ store # <<>>
    /\ \E i \in 1..Len(store) : msg[2] < store[i].id

\* the step is one call of add_price_alert, add_news_alert or add_volatility_alert
AddCall == lastOp' = "add" /\ callBit' # callBit

ValidationMessage == <<"Condition must be 'above' or 'below'">>

\* C13: a call of add_price_alert either stores a price alert whose
\* condition is 'above' or 'below', or returns the validation message and
\* leaves the store as it is, without writing it, so that the next add gets
\* the id it would have got before; no price alert with another condition is
\* ever stored.
C13_InvalidConditionRejected ==
    [][AddCall =>
          \/ /\ msg' = ValidationMessage
             /\ store' = store
             /\ ~wrote'
             /\ _next_id(store') = _next_id(store)
          \/ /\ msg' # ValidationMessage
             /\ Len(store') = Len(store) + 1
             /\ LET a == store'[Len(store')]
                IN a.type = "price" => a.condition \in {"above", "below"}]_vars

\* add_price_alert has rejected a condition while the store holds an alert.
C13_Witness ==
    /\ lastOp = "add"
    /\ msg = ValidationMessage
    /\ store # <<>>

\* the step is an add that stored an alert
Added == AddCall /\ msg' # ValidationMessage

\* C14: no two stored alerts have the same id, and every add that stores an
\* alert appends it with the id 1 when the store was empty and with the
\* greatest stored id plus one otherwise.
C14_UniqueIdsMaxPlusOne ==
    [][/\ \A i, j \in 1..Len(store') : store'[i].id = store'[j].id => i = j
       /\ Added =>
            /\ store' = Append(store, store'[Len(store')])
            /\ store'[Len(store')].id =
                  IF store = <<>> THEN 1 ELSE Max(Ids(store)) + 1]_vars

\* An add has stored alert 3 next to alert 2, after alert 1 was removed.
C14_Witness ==
    /\ lastOp = "add"
    /\ msg = <<"Alert", 3>>
    /\ Len(store) = 2
    /\ store[1].id = 2
    /\ store[2].id = 3

(***************************************************************************)
(* Claims about the ids assigned over time, checked under SpecIds.         *)
(***************************************************************************)
\* C15 (as claimed): every add that stores an alert assigns an id strictly
\* greater than the id assigned by every earlier add.
C15_IdsNeverReused ==
    [][Added => store'[Len(store')].id > highest]_vars

\* C15 (amended): every add that stores an alert assigns an id strictly
\* greater than the id of every alert stored at that time; the id is also
\* greater than every id assigned before, except when the alert with the
\* greatest id assigned so far has been removed, and then an id assigned
\* before is assigned again.
C15_IdAboveStoredIds ==
    [][Added =>
          LET id == store'[Len(store')].id
          IN /\ \A i \in 1..Len(store) : id > store[i].id
             /\ id <= highest <=> (highest > 0 /\ highest \notin Ids(store))]_vars

\* An add has assigned an id that is not above the greatest id assigned
\* before it.
C15_Witness ==
    /\ lastOp = "add"
    /\ msg[1] = "Alert"
    /\ msg[2] < highest

(***************************************************************************)
(* Claims about failing lookups, checked under SpecFail.                   *)
(***************************************************************************)
\* the step is one call of check_alerts, returning or raising
CheckCall == callBit' # callBit /\ lastOp' \in {"check", "check raised"}

\* C16: every call of check_alerts returns to its caller, also when the
\* lookup of one alert raises: it has then asked for the data of every
\* pending alert and has saved the collection.
C16_FailureContained ==
    [][CheckCall =>
          /\ lastOp' = "check"
          /\ wrote'
          /\ \A i \in 1..Len(store) :
                ~store[i].triggered => store[i].id \in fetched']_vars

(***************************************************************************)
(* Claims about _fetch_ticker and the cache, checked under SpecFetch.      *)
(***************************************************************************)
\* the step is _fetch_ticker going upstream and getting no data
NoLiveData == fpc = "acquire" /\ fpc' = "idle" /\ upstream.kind # "data"

\* C17: when _fetch_ticker has found no fresh entry and the live lookup
\* yields no data, it returns the cached value if the key has an entry no
\* older than STALE_CACHE_MAX_AGE, and None only if it has no such entry.
C17_NoDataFallsBackToStale ==
    [][NoLiveData =>
          fres'[1].value =
             IF cache # <<>> /\ now - cache[1].written_at <= STALE_CACHE_MAX_AGE
             THEN cache[1].value
             ELSE None]_vars

\* the step is _fetch_ticker storing what the live lookup gave
LiveData == fpc = "acquire" /\ fpc' = "idle" /\ upstream.kind = "data"

\* C18: a get(key, ttl) returns the stored value iff the key has an entry
\* with now - written_at <= ttl and reports absent otherwise, whatever a get
\* with another ttl returns for the same entry; a set leaves the entry with
\* the new value and written_at = now.
C18_GetIffWithinTtl ==
    [][/\ lastGet' # <<>> =>
            LET g == lastGet'[1]
                within == cache # <<>> /\ now - cache[1].written_at <= g.ttl
            IN /\ g.result # None <=> within
               /\ within => g.result = cache[1].value
       /\ LiveData =>
            cache' = <<[value |-> upstream.quote, written_at |-> now]>>]_vars

\* A get with the stale maximum age has returned an entry of exactly that
\* age, which the get with the market-data ttl had reported absent, and the
\* entry had replaced an earlier one.
C18_Witness ==
    /\ lastGet # <<>>
    /\ lastGet[1].ttl = STALE_CACHE_MAX_AGE
    /\ lastGet[1].result # None
    /\ now - cache[1].written_at = STALE_CACHE_MAX_AGE
    /\ cache[1].written_at > 0

(***************************************************************************)
(* Claims about the rate limiter, checked under SpecLimiter.               *)
(***************************************************************************)
\* the recorded calls within the trailing window
Recent == in_window(call_timestamps, clock)

\* the step is an acquire returning to this caller
AcquireReturns(c) == lpc[c] = "acquire" /\ lpc'[c] = "idle"

\* C19: at no time are more than Budget recorded calls within the trailing
\* Period; while Budget calls are within it no acquire returns, so a further
\* call waits until one of them has aged out; and a waiting call is never
\* dropped: an acquire ends only by recording its call at the present time.
C19_WindowNeverOverBudget ==
    [][/\ Len(in_window(call_timestamps', clock')) <= Budget
       /\ \A c \in Callers :
             AcquireReturns(c) =>
                /\ Len(Recent) < Budget
                /\ Len(call_timestamps') > 0
                /\ call_timestamps'[Len(call_timestamps')] = clock
                /\ \A i \in 1..Len(Recent) :
                      call_timestamps'[i] = Recent[i]]_vars

\* Budget calls are within the window, the oldest of them in its last second
\* there, and a further call is waiting in acquire.
C19_Witness ==
    /\ Len(Recent) = Budget
    /\ clock = Recent[1] + Period - 1
    /\ \E c \in Callers : lpc[c] = "acquire"

(***************************************************************************)
(* Claims about concurrent alert operations, checked under SpecRace.       *)
(***************************************************************************)
\* C20: when an add_price_alert or remove_alert and a check_alerts have both
\* completed, whatever the order of their loads and saves, the store holds
\* the alert that was added, no longer holds the alert that was removed, and
\* holds as triggered every alert that check_alerts returned (unless it is
\* the one that was removed).
C20_NoLostUpdate ==
    (rpc.mutator = "done" /\ rpc.checker = "done") =>
        /\ (rop = "add" /\ rout.mutator # <<>>) => rout.mutator[1] \in Ids(store)
        /\ (rop = "remove" /\ rout.mutator # <<>>) => rout.mutator[1] \notin Ids(store)
        /\ \A k \in 1..Len(rout.checker) :
              \/ rop = "remove" /\ rout.mutator = <<rout.checker[k].id>>
              \/ \E i \in 1..Len(store) :
                    store[i].id = rout.checker[k].id /\ store[i].triggered

(***************************************************************************)
(* Claims about news alerts, checked under SpecNews.                       *)
(***************************************************************************)
\* the keyword, in upper case, is a substring of the text in upper case
InText(text, kw) == Contains(upper(text), upper(kw))

\* the item has one of the keywords in its title or in its summary
MatchesItem(item, keywords) ==
    \E n \in 1..Len(keywords) :
        InText(item.title, keywords[n]) \/ InText(item.summary, keywords[n])

\* C21: in a check_alerts call, a pending news alert is triggered iff some
\* news item has one of the alert's keywords, compared case-insensitively,
\* as a substring of its title or of its summary; matched_headlines then
\* holds between 1 and 3 titles, each the title of such an item.
C21_NewsTriggerIffKeywordInTitleOrSummary ==
    [][CheckStep =>
          \A i \in 1..Len(store) :
             LET a == store[i]
             IN (a.type = "news" /\ ~a.triggered) =>
                   /\ store'[i].triggered <=>
                         \E item \in Range(news) : MatchesItem(item, a.keywords)
                   /\ store'[i].triggered =>
                         /\ Len(store'[i].matched_headlines) \in 1..3
                         /\ \A k \in 1..Len(store'[i].matched_headlines) :
                               \E item \in Range(news) :
                                  /\ item.title = store'[i].matched_headlines[k]
                                  /\ MatchesItem(item, a.keywords)]_vars

(***************************************************************************)
(* Claims about the write of check_alerts, checked under SpecBatch.        *)
(***************************************************************************)
\* the positions of the alerts that are pending in `before` and triggered
\* in `after`, in stored order
Transitioned(before, after) ==
    SelectSeq([i \in 1..Len(before) |-> i],
              LAMBDA i : ~before[i].triggered /\ after[i].triggered)

\* the step ends a call of check_alerts
CallEnds == cpc = "loop" /\ cpc' = "idle"

\* the call's one write: every alert has been examined, the store gets the
\* whole list, and the list returned is that of the alerts this write turns
\* from pending to triggered, in stored order
WritesOnceAndReturns ==
    /\ cidx > Len(clocal)
    /\ cwrites' = 1
    /\ Len(store') = Len(store)
    /\ cret' = [k \in 1..Len(Transitioned(store, store')) |->
                   store'[Transitioned(store, store')[k]]]

\* C22: while a call of check_alerts is under way the store stays as the
\* call loaded it, whatever the loop has decided so far; every call ends
\* with its one write of the whole list, made after the last alert has been
\* examined, and returns exactly the alerts that this write turns from
\* pending to triggered, in stored order.
C22_OneWriteAfterTheLoop ==
    [][/\ (cpc = "loop" /\ ~CallEnds) => (store' = store /\ cwrites' = 0)
       /\ CallEnds => WritesOnceAndReturns]_vars

\* the same for the calls that return
ReturningCallWritesOnce ==
    [][/\ (cpc = "loop" /\ ~CallEnds) => (store' = store /\ cwrites' = 0)
       /\ (CallEnds /\ cend' = "returned") => WritesOnceAndReturns
       /\ (CallEnds /\ cend' = "raised") => (store' = store /\ cwrites' = 0)]_vars

\* A call has returned the second of two alerts it examined and left the
\* first pending.
ReturnedCallSeen ==
    /\ cend = "returned"
    /\ cpc = "idle"
    /\ Len(store) = 2
    /\ Len(cret) = 1
    /\ cret[1] = store[2]
    /\ ~store[1].triggered

(***************************************************************************)
(* Claims about the trigger fields, checked under Spec.                    *)
(***************************************************************************)
\* the evidence field of each kind of alert
Evidence(type) ==
    CASE type = "price" -> "trigger_price"
      [] type = "volatility" -> "trigger_change_pct"
      [] type = "news" -> "matched_headlines"

\* the trigger fields the alert has, with their values
TriggerPart(a) == [f \in DOMAIN a \cap TriggerFields |-> a[f]]

\* C23: every stored alert has trigger_time and the evidence field of its
\* kind if it is triggered and no trigger field at all if it is pending;
\* an add stores its alert pending and without trigger fields; trigger
\* fields appear only in a check_alerts step, on an alert that this step
\* turns from pending to triggered, and are the same ever after.
C23_TriggerFieldsIffTriggered ==
    [][/\ \A i \in 1..Len(store') :
             LET a == store'[i]
             IN DOMAIN a \cap TriggerFields =
                   IF a.triggered THEN {"trigger_time", Evidence(a.type)} ELSE {}
       /\ Added =>
             LET a == store'[Len(store')]
             IN ~a.triggered /\ DOMAIN a \cap TriggerFields = {}
       /\ \A i \in 1..Len(store), j \in 1..Len(store') :
             store'[j].id = store[i].id =>
                /\ store[i].triggered =>
                      (store'[j].triggered /\ TriggerPart(store'[j]) = TriggerPart(store[i]))
                /\ TriggerPart(store'[j]) # TriggerPart(store[i]) =>
                      (CheckStep /\ ~store[i].triggered /\ store'[j].triggered)]_vars

\* A check_alerts call has triggered a news alert and left a price alert
\* pending; the store holds the one with its two trigger fields and the
\* other without any.
C23_Witness ==
    /\ lastOp = "check"
    /\ \E i, j \in 1..Len(store) :
          /\ store[i].type = "news" /\ store[i].triggered
          /\ store[i] \in Range(returned)
          /\ DOMAIN store[i] \cap TriggerFields = {"trigger_time", "matched_headlines"}
          /\ store[j].type = "price" /\ ~store[j].triggered
          /\ DOMAIN store[j] \cap TriggerFields = {}
          /\ store[j].id \in fetched

(***************************************************************************)
(* More claims about build_briefing, checked under SpecBrief.              *)
(***************************************************************************)
\* the step is _run_section handing a builder to its executor
SubmitStep == bpc = "submit" /\ bpc' = "wait"

\* C24: at most one section builder is executing at any time, and a builder
\* is started only when no builder is executing, also when the section
\* before it was recorded as timed out.
C24_OneBuilderAtATime ==
    [][/\ Cardinality(running) <= 1
       /\ Cardinality(running') <= 1
       /\ SubmitStep => (running = {} /\ running' = {sec})]_vars

\* The builder of the second section is executing and the first section
\* was recorded as timed out.
C24_Witness ==
    /\ running = {2}
    /\ bpc = "wait"
    /\ Len(outcomes) = 1
    /\ outcomes[1].kind = "timeout"
    /\ sections = <<timed_out_text(section_names[1])>>

\* the place in `sections` of the i-th finished section, if it has one
PlaceOf(i) == Cardinality({j \in 1..i : ~EmptyOutcome(outcomes[j])})

\* the builder of the section that future.result gave up on has returned
\* text since
LateValue ==
    /\ waited # <<>> /\ waited[1].kind = "timeout"
    /\ fut # <<>> /\ fut[1].kind = "value" /\ ~fut[1].is_none
    /\ ~is_blank(fut[1].val)

\* C25: a section on whose builder future.result timed out gets exactly the
\* placeholder "[<name> timed out]" as its result and as its entry in the
\* composite, at the place its position in section_builders gives it; what
\* its builder returns afterwards is in no entry and nowhere in the text
\* build_briefing returns.
C25_TimedOutSectionIsItsPlaceholder ==
    /\ (bpc = "collect" /\ waited[1].kind = "timeout") =>
          result = timed_out_text(section_names[sec])
    /\ \A i \in 1..Len(outcomes) :
          outcomes[i].kind = "timeout" =>
             /\ sections[PlaceOf(i)] = timed_out_text(section_names[i])
             /\ content(i) \notin Range(sections)
             /\ bpc = "done" =>
                   /\ Occurrences(timed_out_text(section_names[i]), body) # {}
                   /\ Occurrences(content(i), body) = {}
    /\ LateValue =>
          /\ fut[1].val \notin Range(sections)
          /\ bpc = "done" => Occurrences(fut[1].val, body) = {}

\* build_briefing has returned; its last section timed out after an empty
\* one, its builder returned text while the executor was shutting down, and
\* the composite ends with the placeholder.
C25_Witness ==
    /\ bpc = "done"
    /\ LateValue
    /\ fut[1] = Returns(content(sec))
    /\ outcomes[Len(outcomes)].kind = "timeout"
    /\ EmptyOutcome(outcomes[1])
    /\ PlaceOf(Len(outcomes)) < Len(outcomes)
    /\ ends_with(body, timed_out_text(section_names[sec]))

(***************************************************************************)
(* Claims about the producers and their caches, checked under              *)
(* SpecProducers.                                                          *)
(***************************************************************************)
\* the step is a call of _fetch_ticker, up to its return or its acquire
FetchCallStep == fpc = "idle" /\ (fpc' = "acquire" \/ fres' # <<>>)

\* the step is a call of scan_news, up to its return or its loop
ScanCallStep == spc = "idle" /\ (spc' = "feeds" \/ sres' # <<>>)

\* the step is scan_news leaving its loop and returning
ScanEnds == spc = "feeds" /\ spc' = "idle"

FreshMarket == cache # <<>> /\ now - cache[1].written_at <= CACHE_TTL_MARKET_DATA

FreshNews == ncache # <<>> /\ now - ncache[1].written_at <= CACHE_TTL_NEWS

\* C26: a cache entry changes only in a step that has fetched data: the
\* market entry only when the history lookup had rows, the news entry only
\* when the feeds gave items; a _fetch_ticker whose lookup raises or is
\* empty, and a scan_news whose feeds all fail, leave the entry, its value
\* and its written_at, as they were.
C26_CacheWrittenOnlyAfterData ==
    [][/\ cache' # cache => LiveData
       /\ NoLiveData => cache' = cache
       /\ ncache' # ncache => (ScanEnds /\ all_items # <<>>)
       /\ (ScanEnds /\ all_items = <<>>) => ncache' = ncache]_vars

\* the same for _fetch_ticker alone
MarketCacheWrittenOnlyAfterData ==
    [][/\ cache' # cache => LiveData
       /\ NoLiveData => cache' = cache]_vars

\* C27 (as claimed): a call that finds a fresh entry returns the cached
\* value and has called nothing but the cache's get: no upstream lookup, no
\* acquire, no set; the entry is as it was.
C27_FreshHitReturnsCachedValue ==
    [][/\ (FetchCallStep /\ FreshMarket) =>
             /\ fres' = <<[path |-> "fresh", value |-> cache[1].value]>>
             /\ ftrace' = <<"get">>
             /\ fpc' = "idle"
             /\ cache' = cache
       /\ (ScanCallStep /\ FreshNews) =>
             /\ sres' = <<[path |-> "fresh", value |-> ncache[1].value]>>
             /\ strace' = <<"get">>
             /\ spc' = "idle"
             /\ ncache' = ncache]_vars

\* C27 (amended): a call that finds a fresh entry has called nothing but
\* the cache's get: no upstream lookup, no acquire, no set, and the entry
\* is as it was; _fetch_ticker returns the cached value and scan_news
\* returns the first `limit` items of the cached list.
C27_FreshHitReturnsFromCache ==
    [][/\ (FetchCallStep /\ FreshMarket) =>
             /\ fres' = <<[path |-> "fresh", value |-> cache[1].value]>>
             /\ ftrace' = <<"get">>
             /\ fpc' = "idle"
             /\ cache' = cache
       /\ (ScanCallStep /\ FreshNews) =>
             /\ sres' = <<[path |-> "fresh", value |-> Take(ncache[1].value, slimit')]>>
             /\ strace' = <<"get">>
             /\ spc' = "idle"
             /\ ncache' = ncache]_vars

\* scan_news(limit=1) has returned one of the two items of an entry that is
\* exactly CACHE_TTL_NEWS old.
C27_Witness ==
    /\ sres # <<>>
    /\ sres[1].path = "fresh"
    /\ strace = <<"get">>
    /\ slimit = 1
    /\ Len(ncache[1].value) = 2
    /\ Len(sres[1].value) = 1
    /\ now - ncache[1].written_at = CACHE_TTL_NEWS

\* C28: every upstream lookup of a call comes right after an acquire of
\* the rate limiter that the same call has completed: the history lookup of
\* _fetch_ticker and every feed that scan_news parses.
C28_UpstreamCallsGated ==
    /\ \A k \in 1..Len(ftrace) :
          ftrace[k] = "history" => (k > 1 /\ ftrace[k - 1] = "acquire")
    /\ \A k \in 1..Len(strace) :
          strace[k] = "parse" => (k > 1 /\ strace[k - 1] = "acquire")

\* the same for _fetch_ticker alone
MarketLookupsGated ==
    \A k \in 1..Len(ftrace) :
        ftrace[k] = "history" => (k > 1 /\ ftrace[k - 1] = "acquire")

(***************************************************************************)
(* Claims about what remove_alert and check_alerts leave alone, checked    *)
(* under Spec.                                                             *)
(***************************************************************************)
\* C29: remove_alert called with the id of a stored alert, pending or
\* triggered, reports the removal and writes the store without that alert:
\* one alert fewer, the id gone, every other alert as it was and in the
\* same relative order.
C29_RemoveDeletesThatAlertOnly ==
    [][(RemoveCall /\ msg'[2] \in Ids(store)) =>
          /\ msg'[1] = "Removed"
          /\ wrote'
          /\ Len(store') = Len(store) - 1
          /\ msg'[2] \notin Ids(store')
          /\ store' = SelectSeq(store, LAMBDA a : a.id # msg'[2])]_vars

\* remove_alert has removed alert 1 from in front of a triggered alert 2,
\* which is now the first of the store.
C29_Witness ==
    /\ lastOp = "remove"
    /\ msg = <<"Removed", 1>>
    /\ wrote
    /\ Len(store) = 1
    /\ store[1].id = 2
    /\ store[1].triggered

DefinitionFields ==
    {"id", "type", "symbol", "condition", "target", "threshold_pct", "keywords", "created"}

\* the alert without its triggered flag and its trigger fields
DefinitionPart(a) == [f \in DOMAIN a \cap DefinitionFields |-> a[f]]

\* C30: a check_alerts call leaves the store with the same number of
\* alerts, each at its position with its id and all its definition fields
\* as before; an alert differs afterwards only if this call turned it from
\* pending to triggered and returned it, and then only in its triggered
\* flag and its added trigger fields.
C30_CheckChangesTriggerFieldsOnly ==
    [][CheckStep =>
          /\ Len(store') = Len(store)
          /\ \A i \in 1..Len(store) :
                /\ DefinitionPart(store'[i]) = DefinitionPart(store[i])
                /\ DOMAIN store[i] \subseteq DOMAIN store'[i]
                /\ DOMAIN store'[i] \ DOMAIN store[i] \subseteq TriggerFields
                /\ \A f \in DOMAIN store[i] \ {"triggered"} : store'[i][f] = store[i][f]
                /\ store'[i] # store[i] =>
                      /\ ~store[i].triggered
                      /\ store'[i].triggered
                      /\ store'[i] \in Range(returned')]_vars

\* A check_alerts call has triggered both alerts of a store that holds the
\* alerts 2 and 3, in that order, and has returned them in that order.
C30_Witness ==
    /\ lastOp = "check"
    /\ Len(store) = 2
    /\ store[1].id = 2
    /\ store[2].id = 3
    /\ returned = store

(***************************************************************************)
(* Claims about the Alerts section of the briefing, checked under          *)
(* SpecAlertsBrief.                                                        *)
(***************************************************************************)
\* the alerts the briefing's check_alerts call marked triggered in the store
Consumed == {a \in Range(store) : a \in Range(returned)}

\* the alert's line of format_triggered_output is in the text
Listed(a, text) == Contains(text, alert_lines(a)[1])

\* the briefing's future.result received what the Alerts builder returned
AlertsInTime == outcomes # <<>> /\ outcomes[1].kind = "value"

\* C31: every alert that the Alerts section of build_briefing persisted as
\* triggered is listed in the text the same build_briefing call returns, and
\* that text does not show the timeout placeholder for the Alerts section
\* when an alert was consumed.
C31_ConsumedAlertsAreListed ==
    bpc = "done" =>
        /\ \A a \in Consumed : Listed(a, body)
        /\ Consumed # {} => ~Contains(body, timed_out_text(section_names[1]))

\* what does hold: the alerts are listed when the builder ended within
\* SECTION_TIMEOUT
InTimeAlertsAreListed ==
    (bpc = "done" /\ AlertsInTime) => \A a \in Consumed : Listed(a, body)

InTimeAlertsSeen ==
    bpc = "done" /\ AlertsInTime /\ Cardinality(Consumed) = 2

====
